---- MODULE Spec2Model ----
(***************************************************************************)
(* Verification model of the danmaku admin console front end.             *)
(*                                                                         *)
(* The repository ships the console in three forms, and the model carries *)
(* the form as the variable `build`:                                       *)
(*   "app"  - static/app.js, the monolithic console (second listener,     *)
(*            lines 413-1619): synchronous logout, clearedTaskIds;         *)
(*   "p002" - unnamed/part_002, the monolithic console whose logout first *)
(*            calls POST /api/ui/auth/logout through apiFetch;             *)
(*   "mod"  - the ES-module console: static/js/main.js, static/js/api.js, *)
(*            static/js/views/*.js, with unnamed/part_006 as the auth.js   *)
(*            that main.js imports.                                        *)
(*                                                                         *)
(* Time is abstracted: a scheduled timer is a flag, and its expiry is an  *)
(* action.  A backend answer is an action that settles one request in     *)
(* flight with a status drawn from a small set.                            *)
(***************************************************************************)
EXTENDS Integers, Sequences, FiniteSets, TLC

\* ---------------------------------------------------------------- bounds
MaxPend == 1        \* requests of one kind in flight at a time
MaxLogout == 2      \* POST /api/ui/auth/logout requests in flight at a time
MaxItems == 2       \* search results on the page
MaxRuns == 2        \* bulk import loops started in one page session
MaxTasks == 2       \* tasks the backend knows
MaxProviders == 2   \* danmaku sources the backend knows
MaxPwLen == 9       \* longest password typed into the form
MaxSeasonLen == 3   \* longest text typed into the season field
MaxResults == 2     \* items of a search response
MaxDomainLen == 2   \* longest text typed into the custom domain field
MaxTaskReqs == 2    \* task list requests issued in one page session
MaxSelTasks == 1    \* tasks the backend knows while tasks are selected
MaxTitleLen == 4    \* longest title of a search result

\* handleChangePassword: newPassword.length < 8
MinPasswordLen == 8

Builds == {"app", "p002", "mod"}
Mono == {"app", "p002"}

\* The first console (part_008): login, search, import and password change
\* only, no polling; it has a specification of its own.
Legacy == "p008"

\* Kinds of request the auth/polling model follows.
\*   me      GET /api/ui/auth/users/me        (checkLogin)
\*   logs    GET /api/ui/logs                 (refreshServerLogs)
\*   tasks   GET /api/ui/tasks                (loadAndRenderTasks)
\*   logout  POST /api/ui/auth/logout         (logout of p002 / mod)
\*   login   POST /api/ui/auth/token          (handleLogin, plain fetch)
\*   search  GET /api/ui/search/provider      (handleSearch)
\*   sched   POST /api/ui/scheduled-tasks/{id}/run (handleScheduledTaskAction)
\*   scrapers GET /api/ui/scrapers            (loadScraperSettings)
\*   saveSrc PUT /api/ui/scrapers             (handleSaveSources)
\*   password PUT /api/ui/auth/users/me/password (handleChangePassword)
\*   editAnime PUT /api/ui/library/anime/{id}  (handleEditAnimeSave)
\*   domain  GET /api/ui/config/custom_api_domain (loadCustomDomain)
\*   saveDomain PUT /api/ui/config/custom_api_domain (handleSaveDomain)
Kinds == {"me", "logs", "tasks", "logout", "login", "search", "sched",
          "scrapers", "saveSrc", "password", "editAnime", "domain",
          "saveDomain", "deleteTask"}
UserKinds == {"search", "sched"}
Statuses == {"ok", "401", "500", "badjson"}
ContentViews == {"home", "tasks"}

VARIABLES
    build,        \* which console is loaded
    token,        \* the `token` variable (app.js:466, part_006:4)
    lsToken,      \* localStorage has danmu_api_token
    view,         \* "none" | "auth" | "main": which top-level view is shown
    content,      \* the content view without the class hidden
    runSubHidden, \* mod: #running-tasks-subview carries the class hidden
    logTimer,     \* logRefreshInterval is a live interval
    taskTimer,    \* the task polling interval is live
    pend,         \* requests in flight, by kind
    last,         \* what the last step did (history, read by the properties)
    \* --- bulk import (home.js, part_002, part_005)
    results,      \* originalSearchResults: position -> mediaId
    bulkItems,    \* the checked positions and the items filtered from
                  \* `results` for them (home.js: itemsForBulkImport)
    bulkBtnOff,   \* #bulk-import-btn is disabled
    runs,         \* the bulk import loops started so far
    \* --- task list (renderTasks of app.js, part_002, tasks.js)
    taskDom,      \* the <li> children of #task-list, in document order
    clearedTaskIds, \* app.js: ids the front end has cleared from the view
    fade,         \* app.js: per task, the removal timeout that is pending
    lastResp,     \* history: the task list answer rendered last
    lastRender,   \* history: what the last renderTasks call did
    \* --- danmaku sources (sources.js, app.js, part_002)
    srcDom,       \* the <li> children of the sources list, in document order
    srcLoaded,    \* history: the settings rendered last
    srcSaveOff,   \* the save button is disabled
    lastPayload,  \* history: the body of the last PUT /api/ui/scrapers
    \* --- account settings (settings.js, app.js)
    pwForm,       \* the values of #new-password and #confirm-password
    pwMsg,        \* #password-change-message: "" | "error" | "success"
    pwBtnOff,     \* settings.js: the submit button is disabled
    \* --- edit anime form (app.js, part_002)
    seasonField,  \* the text in #edit-anime-season
    editBtnOff,    \* the submit button of the edit form is disabled
    \* --- search result filter (home.js, part_002)
    origResults, \* originalSearchResults as the filter reads it: items with type and title
    movieOn, \* #filter-btn-movie carries the class active
    tvOn, \* #filter-btn-tv_series carries the class active
    filterText, \* the value of #results-filter-input
    shownResults, \* the items rendered into #results-list
    lastSearch, \* history: the results of the last search response
    \* --- token view (part_004, app.js, part_002)
    domainInput, \* the text in #custom-domain-input
    serverDomain, \* the custom_api_domain the backend has stored
    domainSaving, \* cleanedDomain of the handleSaveDomain call in flight
    saveDomainOff, \* #save-domain-btn is disabled
    clipboard, \* the text on the clipboard
    \* --- overlapping task list requests (tasks.js)
    taskReqs, \* per task list request, in the order of issue: none, flight or answered
    taskLoadTimeout, \* the 300 ms debounce timeout of the filter controls is pending
    shownReq, \* history: the request whose answer #task-list shows (0: none)
    \* --- task selection and action buttons (tasks.js)
    selectedTask, \* tasks.js: data-task-id of the .task-item that carries the class selected (0: none)
    deleteOff, \* tasks.js: #delete-running-task-btn is disabled
    pauseOff, \* tasks.js: #pause-resume-task-btn is disabled
    \* --- season parsed from a title (home.js)
    searchTitle, \* item.title of a search result, one string per character
    season, \* history: what parseTitleForSeason returned for it
    seasonParsed \* history: parseTitleForSeason has been applied

authVars == <<build, token, lsToken, view, content, runSubHidden, logTimer,
              taskTimer, pend, last>>
bulkVars == <<results, bulkItems, bulkBtnOff, runs>>
taskVars == <<taskDom, clearedTaskIds, fade, lastResp, lastRender>>
srcVars == <<srcDom, srcLoaded, srcSaveOff, lastPayload>>
pwVars == <<pwForm, pwMsg, pwBtnOff>>
editVars == <<seasonField, editBtnOff>>
filterVars == <<origResults, movieOn, tvOn, filterText, shownResults, lastSearch>>
tokenVars == <<domainInput, serverDomain, domainSaving, saveDomainOff, clipboard>>
reqVars == <<taskReqs, taskLoadTimeout, shownReq>>
selVars == <<selectedTask, deleteOff, pauseOff>>
titleVars == <<searchTitle, season, seasonParsed>>
nonAuth == <<bulkVars, taskVars, srcVars, pwVars, editVars, filterVars, tokenVars, reqVars, selVars, titleVars>>
nonBulk == <<taskVars, srcVars, pwVars, editVars, filterVars, tokenVars, reqVars, selVars, titleVars>>
nonTask == <<bulkVars, srcVars, pwVars, editVars, filterVars, tokenVars, reqVars, selVars, titleVars>>
nonSrc == <<bulkVars, taskVars, pwVars, editVars, filterVars, tokenVars, reqVars, selVars, titleVars>>
nonPw == <<bulkVars, taskVars, srcVars, editVars, filterVars, tokenVars, reqVars, selVars, titleVars>>
nonEdit == <<bulkVars, taskVars, srcVars, pwVars, filterVars, tokenVars, reqVars, selVars, titleVars>>
nonFilter == <<bulkVars, taskVars, srcVars, pwVars, editVars, tokenVars, reqVars, selVars, titleVars>>
nonToken == <<bulkVars, taskVars, srcVars, pwVars, editVars, filterVars, reqVars, selVars, titleVars>>
nonReq == <<bulkVars, taskVars, srcVars, pwVars, editVars, filterVars, tokenVars, selVars, titleVars>>
nonTaskReq == <<bulkVars, srcVars, pwVars, editVars, filterVars, tokenVars, titleVars>>
nonTaskSel == <<bulkVars, srcVars, pwVars, editVars, filterVars, tokenVars, reqVars, titleVars>>
nonSel == <<bulkVars, taskVars, srcVars, pwVars, editVars, filterVars, tokenVars, reqVars, titleVars>>
nonTitle == <<bulkVars, taskVars, srcVars, pwVars, editVars, filterVars, tokenVars, reqVars, selVars>>
vars == <<authVars, nonAuth>>

NoLast == [op |-> "init", kind |-> "none", status |-> "none", issued |-> FALSE,
           lo |-> FALSE, pre |-> FALSE, msg |-> FALSE]

\* ------------------------------------------------------------ auth helpers

\* The authentication state a handler works on while it runs; `out` counts
\* the logout requests the handler has issued, `lo` records that the
\* client-side logout block ran.
AuthNow == [token |-> token, ls |-> lsToken, view |-> view,
            logTimer |-> logTimer, out |-> 0, lo |-> FALSE]

\* stopLogRefresh: the monoliths clear the interval; part_006 only dispatches
\* 'logrefresh:stop', for which home.js registers no listener (it listens
\* for 'auth:status-changed'), so the interval variable of home.js is left.
stopLogRefresh_NoClear(t) == t
stopLogRefresh(t) == IF build \in Mono THEN FALSE ELSE t

\* startLogRefresh: the monoliths (re)create the 3 s interval; part_006 only
\* dispatches 'logrefresh:start', for which home.js registers no listener.
startLogRefresh(t) == IF build \in Mono THEN TRUE ELSE t

\* The client-side logout block: app.js logout body, and the finally block
\* of the asynchronous logout of part_002 / part_006.
ClientLogout(a) ==
    [a EXCEPT !.token = FALSE, !.ls = FALSE, !.view = "auth",
              !.logTimer = stopLogRefresh(a.logTimer), !.lo = TRUE]

\* A call of logout(): synchronous in app.js; in part_002 / part_006 it runs
\* up to the await of apiFetch('/api/ui/auth/logout'), i.e. issues the request.
logout(a) ==
    IF build \in {"app", Legacy} THEN ClientLogout(a)
    ELSE [a EXCEPT !.out = @ + 1]

\* apiFetch on a 401 answer, before it throws: the monoliths call logout(),
\* static/js/api.js only throws.
apiFetch401_NoLogout(a) == a
apiFetch401(a) == IF build \in Mono \cup {Legacy} THEN logout(a) ELSE a

\* apiFetch applied to an answer: the state after it returned or threw.
apiFetch(a, st) == IF st = "401" THEN apiFetch401(a) ELSE a

\* The element loadAndRenderTasks tests is shown: #task-manager-view in the
\* monoliths, #running-tasks-subview in tasks.js.
TaskViewShown == IF build \in Mono THEN content = "tasks" ELSE ~runSubHidden

\* The guard of loadAndRenderTasks: TRUE when the request is issued.
loadTasksGuard_NoViewCheck(tok, ls) == IF build \in Mono THEN tok ELSE ls
loadTasksGuard(tok, ls) ==
    IF build \in Mono THEN tok /\ TaskViewShown ELSE ls /\ TaskViewShown

\* The guard of refreshServerLogs: TRUE when the request is issued.
refreshLogsGuard(tok, ls) == IF build \in Mono THEN tok ELSE ls

Add(p, k, n) == [p EXCEPT ![k] = @ + n]

\* Writes an authentication state back and issues its logout requests.
Commit(a, p) ==
    /\ p["logout"] + a.out <= MaxLogout
    /\ \A k \in Kinds \ {"logout"} : p[k] <= MaxPend
    /\ token' = a.token
    /\ lsToken' = a.ls
    /\ view' = a.view
    /\ logTimer' = a.logTimer
    /\ pend' = Add(p, "logout", a.out)

Did(op, kind, st, issued, a, msg) ==
    last' = [op |-> op, kind |-> kind, status |-> st, issued |-> issued,
             lo |-> a.lo, pre |-> logTimer, msg |-> msg]

\* ------------------------------------------------------------------ Init
\* The state after the DOMContentLoaded listener has run: listeners are
\* registered, the monoliths have created the task interval, and
\* checkLogin() has run up to its first await.
RunIds == 1..MaxRuns
Items == 1..MaxItems
MediaIds == {"m1", "m2"}
NoRun == [pc |-> "idle", items |-> <<>>, i |-> 0,
          sent |-> [x \in Items |-> 0], failed |-> FALSE]
NoBulk == [sel |-> {}, items |-> <<>>]

\* The bulk import state of a freshly loaded page.
BulkIdle ==
    /\ results = [x \in Items |-> "m1"]
    /\ bulkItems = NoBulk
    /\ bulkBtnOff = FALSE
    /\ runs = [r \in RunIds |-> NoRun]

TaskIds == 1..MaxTasks
\* task.status: 运行中, 已完成, 已暂停
TaskStatuses == {"running", "done"}
NoRender == [shown |-> <<>>, updated |-> FALSE, appended |-> FALSE,
             removed |-> FALSE]

\* The task list of a freshly loaded page.
TasksIdle ==
    /\ taskDom = <<>>
    /\ clearedTaskIds = {}
    /\ fade = [t \in TaskIds |-> "none"]
    /\ lastResp = <<>>
    /\ lastRender = NoRender

\* No title was parsed yet.
TitleIdle ==
    /\ searchTitle = <<>>
    /\ season = [nan |-> FALSE, val |-> 1]
    /\ seasonParsed = FALSE

\* No task is selected and both action buttons are disabled, as
\* updateTaskActionButtons leaves them when the task view is opened.
SelIdle ==
    /\ selectedTask = 0
    /\ deleteOff = TRUE
    /\ pauseOff = TRUE

\* No task list request was issued yet and no debounce timeout is pending.
ReqIds == 1..MaxTaskReqs
ReqIdle ==
    /\ taskReqs = [n \in ReqIds |-> "none"]
    /\ taskLoadTimeout = FALSE
    /\ shownReq = 0

\* The sources list before the first load, and an empty password form.
SourcesIdle ==
    /\ srcDom = <<>>
    /\ srcLoaded = <<>>
    /\ srcSaveOff = FALSE
    /\ lastPayload = <<>>

PasswordIdle ==
    /\ pwForm = [new |-> <<>>, confirm |-> <<>>]
    /\ pwMsg = ""
    /\ pwBtnOff = FALSE

\* The edit form before a title is opened.
EditIdle ==
    /\ seasonField = <<>>
    /\ editBtnOff = FALSE

\* The token view before it is opened.
TokenIdle ==
    /\ domainInput = <<>>
    /\ serverDomain = <<>>
    /\ domainSaving = <<>>
    /\ saveDomainOff = FALSE
    /\ clipboard = <<>>

\* The home view before the first search (both type buttons are active in
\* the page as delivered).
FilterIdle ==
    /\ origResults = <<>>
    /\ movieOn = TRUE /\ tvOn = TRUE
    /\ filterText = <<>>
    /\ shownResults = <<>>
    /\ lastSearch = <<>>

Init ==
    /\ BulkIdle
    /\ TasksIdle
    /\ SourcesIdle
    /\ PasswordIdle
    /\ TitleIdle
    /\ SelIdle
    /\ ReqIdle
    /\ TokenIdle
    /\ FilterIdle
    /\ EditIdle
    /\ build \in Builds
    /\ lsToken \in BOOLEAN
    /\ token = lsToken
    /\ view = IF lsToken THEN "none" ELSE "auth"
    /\ content = "home"
    /\ runSubHidden = TRUE
    /\ logTimer = FALSE
    /\ taskTimer = (build \in Mono)
    /\ pend = [k \in Kinds |-> IF k = "me" /\ lsToken THEN 1 ELSE 0]
    /\ last = NoLast

\* --------------------------------------------------------------- actions

\* handleLogin up to the await of fetch('/api/ui/auth/token').
HandleLogin ==
    /\ view = "auth"
    /\ Commit(AuthNow, Add(pend, "login", 1))
    /\ Did("login", "login", "none", TRUE, AuthNow, FALSE)
    /\ UNCHANGED nonAuth
    /\ UNCHANGED <<build, content, runSubHidden, taskTimer>>

\* handleLogin after the token request settled: on success the token is
\* stored and checkLogin() runs up to its await; otherwise #auth-error.
LoginResp(ok) ==
    /\ pend["login"] > 0
    /\ LET a == IF ok THEN [AuthNow EXCEPT !.token = TRUE, !.ls = TRUE]
                ELSE AuthNow
           p == Add(pend, "login", -1)
       IN /\ Commit(a, IF ok THEN Add(p, "me", 1) ELSE p)
          /\ Did("resp", "login", IF ok THEN "ok" ELSE "500", ok, a, ~ok)
    /\ UNCHANGED nonAuth
    /\ UNCHANGED <<build, content, runSubHidden, taskTimer>>

\* The catch block of checkLogin: logout(); part_008 only writes to its log
\* ('apiFetch has already handled it').
checkLoginCatch(a) == IF build = Legacy THEN a ELSE logout(a)

\* checkLogin after /api/ui/auth/users/me settled.  `st` may also be
\* "nouser": a 2xx answer without a username, which part_008 does not test.
CheckLoginResp(st) ==
    /\ pend["me"] > 0
    /\ LET a1 == apiFetch(AuthNow, st)
           ok == st = "ok" \/ (st = "nouser" /\ build = Legacy)
           a2 == IF ok
                 THEN [a1 EXCEPT !.view = "main",
                                 !.logTimer = startLogRefresh(a1.logTimer)]
                 ELSE checkLoginCatch(a1)
           \* startLogRefresh of the monoliths calls refreshServerLogs() and
           \* loadAndRenderTasks() at once.
           logsNow == ok /\ build \in Mono /\ refreshLogsGuard(a2.token, a2.ls)
           tasksNow == ok /\ build \in Mono /\ loadTasksGuard(a2.token, a2.ls)
           p1 == Add(pend, "me", -1)
           p2 == IF logsNow THEN Add(p1, "logs", 1) ELSE p1
           p3 == IF tasksNow THEN Add(p2, "tasks", 1) ELSE p2
       IN /\ Commit(a2, p3)
          /\ Did("resp", "me", st, logsNow, a2, FALSE)
    /\ UNCHANGED nonAuth
    /\ UNCHANGED <<build, content, runSubHidden, taskTimer>>

\* A click on #logout-btn.
LogoutClick ==
    /\ view = "main"
    /\ LET a == logout(AuthNow)
       IN /\ Commit(a, pend)
          /\ Did("logoutClick", "none", "none", a.out > 0, a, FALSE)
    /\ UNCHANGED nonAuth
    /\ UNCHANGED <<build, content, runSubHidden, taskTimer>>

\* The catch and finally blocks of the asynchronous logout: whatever the
\* request came to, the client-side logout runs.
logoutFinally_OnlyOnSuccess(a, st) == IF st = "ok" THEN ClientLogout(a) ELSE a
logoutFinally(a, st) == ClientLogout(a)

\* The asynchronous logout after its request settled: apiFetch (which in
\* part_002 calls logout() again on a 401), the catch, the finally block.
LogoutResp(st) ==
    /\ build # "app"
    /\ pend["logout"] > 0
    /\ LET a == logoutFinally(apiFetch(AuthNow, st), st)
       IN /\ Commit(a, Add(pend, "logout", -1))
          /\ Did("resp", "logout", st, a.out > 0, a, FALSE)
    /\ UNCHANGED nonAuth
    /\ UNCHANGED <<build, content, runSubHidden, taskTimer>>

\* The 3 s interval fires: refreshServerLogs up to its await.
LogTick ==
    /\ logTimer
    /\ LET go == refreshLogsGuard(token, lsToken)
       IN /\ Commit(AuthNow, IF go THEN Add(pend, "logs", 1) ELSE pend)
          /\ Did("logTick", "logs", "none", go, AuthNow, FALSE)
    /\ UNCHANGED nonAuth
    /\ UNCHANGED <<build, content, runSubHidden, taskTimer>>

\* refreshServerLogs after its request settled: the log text is replaced, a
\* failure goes to console.error.
LogsResp(st) ==
    /\ pend["logs"] > 0
    /\ LET a == apiFetch(AuthNow, st)
       IN /\ Commit(a, Add(pend, "logs", -1))
          /\ Did("resp", "logs", st, FALSE, a, FALSE)
    /\ UNCHANGED nonAuth
    /\ UNCHANGED <<build, content, runSubHidden, taskTimer>>

\* The task interval fires: loadAndRenderTasks up to its await.
TaskTick ==
    /\ taskTimer
    /\ LET go == loadTasksGuard(token, lsToken)
       IN /\ Commit(AuthNow, IF go THEN Add(pend, "tasks", 1) ELSE pend)
          /\ Did("taskTick", "tasks", "none", go, AuthNow, FALSE)
    /\ UNCHANGED nonAuth
    /\ UNCHANGED <<build, content, runSubHidden, taskTimer>>

\* loadAndRenderTasks after its request settled (the rendering itself is
\* followed by RenderStep under SpecTasks); tasks.js writes the failure into
\* the list, the monoliths send it to console.error.
TasksResp(st) ==
    /\ pend["tasks"] > 0
    /\ LET a == apiFetch(AuthNow, st)
       IN /\ Commit(a, Add(pend, "tasks", -1))
          /\ Did("resp", "tasks", st, FALSE, a, st # "ok" /\ build = "mod")
    /\ UNCHANGED nonAuth
    /\ UNCHANGED <<build, content, runSubHidden, taskTimer>>

\* A click on a sidebar link: the content views are switched and the task
\* view loads its list at once (monoliths: handleSidebarNavigation; mod:
\* the viewchange listener of tasks.js clicks the first sub-navigation
\* button, which shows #running-tasks-subview).
Navigate(v) ==
    /\ view = "main"
    /\ content' = v
    /\ runSubHidden' = IF build = "mod" /\ v = "tasks" THEN FALSE
                       ELSE runSubHidden
    /\ LET go == /\ v = "tasks"
                 /\ IF build \in Mono THEN token ELSE lsToken
       IN /\ Commit(AuthNow, IF go THEN Add(pend, "tasks", 1) ELSE pend)
          /\ Did("nav", "tasks", "none", go, AuthNow, FALSE)
    /\ UNCHANGED nonAuth
    /\ UNCHANGED <<build, taskTimer>>

\* tasks.js: a click on the scheduled-tasks sub-navigation button hides
\* #running-tasks-subview.
TaskSubNavScheduled ==
    /\ build = "mod"
    /\ view = "main"
    /\ content = "tasks"
    /\ runSubHidden' = TRUE
    /\ Did("subnav", "none", "none", FALSE, AuthNow, FALSE)
    /\ UNCHANGED nonAuth
    /\ UNCHANGED <<build, token, lsToken, view, content, logTimer, taskTimer,
                   pend>>

\* A user action that calls the backend through apiFetch, up to its await:
\* handleSearch, or (tasks.js) handleScheduledTaskAction('run', id).
UserRequest(k) ==
    /\ view = "main"
    /\ k = "sched" => build = "mod" /\ content = "tasks"
    /\ Commit(AuthNow, Add(pend, k, 1))
    /\ Did("act", k, "none", TRUE, AuthNow, FALSE)
    /\ UNCHANGED nonAuth
    /\ UNCHANGED <<build, content, runSubHidden, taskTimer>>

\* The user action after its request settled.  handleSearch alerts a
\* failure; handleScheduledTaskAction has no catch: a failure is an
\* unhandled rejection, and on success it alerts 'triggered'.
UserResp(k, st) ==
    /\ k \in UserKinds
    /\ pend[k] > 0
    /\ LET a == apiFetch(AuthNow, st)
       IN /\ Commit(a, Add(pend, k, -1))
          /\ Did("resp", k, st, FALSE, a,
                 IF k = "search" THEN st # "ok" ELSE st = "ok")
    /\ UNCHANGED nonAuth
    /\ UNCHANGED <<build, content, runSubHidden, taskTimer>>

Next ==
    \/ HandleLogin
    \/ \E ok \in BOOLEAN : LoginResp(ok)
    \/ \E st \in Statuses \cup {"nouser"} : CheckLoginResp(st)
    \/ LogoutClick
    \/ \E st \in Statuses : LogoutResp(st)
    \/ LogTick
    \/ \E st \in Statuses : LogsResp(st)
    \/ TaskTick
    \/ \E st \in Statuses : TasksResp(st)
    \/ \E v \in ContentViews : Navigate(v)
    \/ TaskSubNavScheduled
    \/ \E k \in UserKinds : UserRequest(k)
    \/ \E k \in UserKinds, st \in Statuses : UserResp(k, st)

Spec == Init /\ [][Next]_vars

\* The same console when every logout request settles, with an answer or
\* with a failure.
SpecLive == Spec /\ WF_vars(\E st \in Statuses : LogoutResp(st))

\* The first console: the page is loaded with or without a stored token.
InitLegacy ==
    /\ BulkIdle
    /\ TasksIdle
    /\ SourcesIdle
    /\ PasswordIdle
    /\ TitleIdle
    /\ SelIdle
    /\ ReqIdle
    /\ EditIdle
    /\ FilterIdle
    /\ TokenIdle
    /\ build = Legacy
    /\ lsToken \in BOOLEAN
    /\ token = lsToken
    /\ view = IF lsToken THEN "none" ELSE "auth"
    /\ content = "home"
    /\ runSubHidden = TRUE
    /\ logTimer = FALSE
    /\ taskTimer = FALSE
    /\ pend = [k \in Kinds |-> IF k = "me" /\ lsToken THEN 1 ELSE 0]
    /\ last = NoLast

NextLegacy ==
    \/ HandleLogin
    \/ \E ok \in BOOLEAN : LoginResp(ok)
    \/ \E st \in Statuses \cup {"nouser"} : CheckLoginResp(st)
    \/ LogoutClick
    \/ UserRequest("search")
    \/ \E st \in Statuses : UserResp("search", st)

SpecLegacy == InitLegacy /\ [][NextLegacy]_vars

\* ------------------------------------------------- properties (Spec)

CheckLoginOk == last.op = "resp" /\ last.kind = "me" /\ last.status = "ok"

LoggedOutOrLoggingOut ==
    \/ ~token /\ ~lsToken /\ view = "auth" /\ ~logTimer
    \/ pend["logout"] > 0

\* C1: whenever a request made through apiFetch (every kind but the plain
\* fetch of the login form) is answered with 401, the client logs out: the
\* token is removed, the auth view is shown and log polling is stopped, or
\* the asynchronous logout that does so is under way.
C1_Logout401 ==
    (last.op = "resp" /\ last.status = "401" /\ last.kind # "login")
        => LoggedOutOrLoggingOut

\* C2: log polling is started when a login check succeeds (the 3 s interval
\* is live and, with a token stored, the first log request has been
\* issued), a log request is issued only with a token stored, and the
\* interval is not live once the client-side logout has run.
C2_LogPolling ==
    /\ CheckLoginOk => logTimer /\ (lsToken => last.issued)
    /\ (last.kind = "logs" /\ last.issued) => lsToken
    /\ last.lo => ~logTimer

\* C3 as stated: once the operator has logged out, or has left the task
\* view, no polling timer remains scheduled, neither the log timer nor the
\* task timer.
C3_NoTimerAfterLogoutOrViewChange ==
    /\ last.lo => ~logTimer /\ ~taskTimer
    /\ (last.op = "nav" /\ content # "tasks") => ~taskTimer

\* C3 as amended: the client-side logout leaves no log timer scheduled; the
\* task timer of the monolithic consoles is created at page load and is
\* never cleared, neither by a logout nor by a view change.
C3_LogTimerClearedTaskTimerKept ==
    /\ last.lo => ~logTimer
    /\ build \in Mono => taskTimer

\* C3 witness: a logout has run while the log timer was live; the log timer
\* is gone and the task timer is still scheduled.
C3_Witness == last.lo /\ last.pre /\ ~logTimer /\ taskTimer

\* C6: every failure (non-2xx status or unparsable body) of a request
\* started by a user action is surfaced by alert() or an inline message.
C6_FailureSurfaced ==
    (last.op = "resp" /\ last.kind \in UserKinds /\ last.status # "ok")
        => last.msg

\* C7: a task poll tick issues a /api/ui/tasks request if and only if a
\* token is stored and the task view the console tests (#task-manager-view,
\* or #running-tasks-subview in tasks.js) does not carry the class hidden.
C7_TaskPollGuard ==
    last.op = "taskTick" => (last.issued <=> (lsToken /\ TaskViewShown))

\* C7 as stated: a task poll tick issues the request only if a token is
\* stored and the task view is visible, i.e. not hidden itself and inside
\* the shown main view.
C7_IssuedOnlyWhenVisible ==
    (last.op = "taskTick" /\ last.issued)
        => (lsToken /\ TaskViewShown /\ view = "main")

\* C7 witness: a tick has issued the request while the task view was shown.
C7_Witness == last.op = "taskTick" /\ last.issued /\ lsToken /\ TaskViewShown

\* ------------------------------------------------- properties (SpecLive)

\* The finally block of a logout has just run and left the client logged
\* out.
LogoutCompleted ==
    /\ last.lo
    /\ ~token /\ ~lsToken /\ view = "auth" /\ ~logTimer

\* C14: a logout whose request is in flight is followed by a completed
\* client-side logout, whatever the request comes to.
C14_LogoutCompletes == (pend["logout"] > 0) ~> LogoutCompleted

\* C14 witness: a logout request has failed and the client-side logout has
\* run all the same.
C14_Witness ==
    /\ last.op = "resp" /\ last.kind = "logout" /\ last.status # "ok"
    /\ LogoutCompleted

\* C15: handling the 401 answer of a logout request issues no further
\* logout request.
C15_NoLogoutAfterLogout401 ==
    (last.op = "resp" /\ last.kind = "logout" /\ last.status = "401")
        => ~last.issued

\* C16: whenever the main view is shown a token is stored; a login check
\* that succeeds after a logout has cleared the token neither shows the
\* main view nor starts log polling.
C16_MainViewHasToken ==
    /\ view = "main" => lsToken
    /\ (CheckLoginOk /\ ~lsToken) => (view # "main" /\ ~logTimer)

\* C17: when the login check fails (401, another error status, an
\* unparsable body, an answer without a username), the client ends logged
\* out, at once or by the asynchronous logout that is under way.
C17_FailedCheckLogsOut ==
    (last.op = "resp" /\ last.kind = "me" /\ last.status # "ok")
        => LoggedOutOrLoggingOut

\* ------------------------------------------------------------ bulk import
\* A run is one execution of the import loop: `items` are the positions of
\* `results` it walks, `i` the number of items the loop is done with, `pc`
\* where it waits ("fetch": awaiting apiFetch('/api/ui/import'), "delay":
\* awaiting the 200 ms timeout), `sent` the requests issued per position.

\* originalSearchResults.filter(item => selectedMediaIds.has(item.mediaId))
RECURSIVE PositionsFrom(_, _)
PositionsFrom(x, ids) ==
    IF x > MaxItems THEN <<>>
    ELSE (IF results[x] \in ids THEN <<x>> ELSE <<>>) \o PositionsFrom(x + 1, ids)
itemsToImport(sel) == PositionsFrom(1, {results[x] : x \in sel})

\* The for...of loop moves on to the next item whatever the answer was.
nextIndex_RetryFailed(i, st) == IF st = "ok" THEN i + 1 ELSE i
nextIndex(i, st) == i + 1

FreeRun == CHOOSE r \in RunIds : runs[r].pc = "idle"

\* The loop is entered: the button is disabled and the first request issued.
StartRun(b) ==
    /\ \E r \in RunIds : runs[r].pc = "idle"
    /\ runs' = [runs EXCEPT ![FreeRun] =
                  [NoRun EXCEPT !.pc = "fetch", !.items = b.items,
                                !.sent[b.items[1]] = 1]]
    /\ bulkBtnOff' = TRUE

\* A click on #bulk-import-btn with the boxes of `sel` checked.  With no box
\* checked it alerts.  part_002: after confirm() the loop starts.  home.js:
\* the items are kept and the bulk import view is shown.
HandleBulkImport(sel) ==
    /\ view = "main" /\ content = "home" /\ ~bulkBtnOff
    /\ LET b == [sel |-> sel, items |-> itemsToImport(sel)]
       IN IF sel = {}
          THEN /\ UNCHANGED <<bulkItems, bulkBtnOff, runs, content>>
               /\ Did("bulk", "import", "none", FALSE, AuthNow, TRUE)
          ELSE IF build = "mod"
          THEN /\ bulkItems' = b
               /\ content' = "bulk"
               /\ UNCHANGED <<bulkBtnOff, runs>>
               /\ Did("bulk", "import", "none", FALSE, AuthNow, FALSE)
          ELSE /\ StartRun(b)
               /\ bulkItems' = b
               /\ UNCHANGED content
               /\ Did("importIssue", "import", "none", TRUE, AuthNow, FALSE)
    /\ UNCHANGED <<build, token, lsToken, view, runSubHidden, logTimer,
                   taskTimer, pend, results>>
    /\ UNCHANGED nonBulk

\* home.js: a click on #confirm-bulk-import-btn; _performUnifiedBulkImport
\* or _performSeparateBulkImport starts and is not awaited.  Nothing
\* disables the confirm button.
HandleConfirmBulkImport ==
    /\ build = "mod"
    /\ view = "main" /\ content = "bulk"
    /\ Len(bulkItems.items) > 0
    /\ StartRun(bulkItems)
    /\ Did("importIssue", "import", "none", TRUE, AuthNow, FALSE)
    /\ UNCHANGED <<build, token, lsToken, view, content, runSubHidden,
                   logTimer, taskTimer, pend, results, bulkItems>>
    /\ UNCHANGED nonBulk

\* home.js: a click on #cancel-bulk-import-btn.
CancelBulkImport ==
    /\ build = "mod"
    /\ view = "main" /\ content = "bulk"
    /\ content' = "home"
    /\ Did("bulkCancel", "import", "none", FALSE, AuthNow, FALSE)
    /\ UNCHANGED <<build, token, lsToken, view, runSubHidden, logTimer,
                   taskTimer, pend, bulkVars>>
    /\ UNCHANGED nonBulk

\* The import request of run r settled: apiFetch, then the inner try/catch
\* (console.log / console.warn / console.error), then the 200 ms timeout is
\* created and awaited.
ImportResp(r, st) ==
    /\ runs[r].pc = "fetch"
    /\ runs' = [runs EXCEPT ![r].pc = "delay",
                            ![r].i = nextIndex(@, st),
                            ![r].failed = @ \/ st # "ok"]
    /\ LET a == apiFetch(AuthNow, st)
       IN /\ Commit(a, pend)
          /\ Did("resp", "import", st, FALSE, a, FALSE)
    /\ UNCHANGED <<build, content, runSubHidden, taskTimer, results,
                   bulkItems, bulkBtnOff>>
    /\ UNCHANGED nonBulk

\* The 200 ms timeout of run r fired: the loop issues the request of the
\* next item, or ends: alert, the button is enabled again, and home.js
\* switches back to the home view.
DelayElapsed(r) ==
    /\ runs[r].pc = "delay"
    /\ LET run == runs[r]
           more == run.i < Len(run.items)
       IN /\ IF more
             THEN /\ runs' = [runs EXCEPT ![r].pc = "fetch",
                                  ![r].sent[run.items[run.i + 1]] = @ + 1]
                  /\ UNCHANGED <<bulkBtnOff, content>>
             ELSE /\ runs' = [runs EXCEPT ![r].pc = "done"]
                  /\ bulkBtnOff' = FALSE
                  /\ content' = IF build = "mod" THEN "home" ELSE content
          /\ Did(IF more THEN "importIssue" ELSE "importDone", "import",
                 "none", more, AuthNow, ~more)
    /\ UNCHANGED <<build, token, lsToken, view, runSubHidden, logTimer,
                   taskTimer, pend, results, bulkItems>>
    /\ UNCHANGED nonBulk

\* A page that shows a search response, with the operator logged in.
InitBulk ==
    /\ build \in {"p002", "mod"}
    /\ token = TRUE /\ lsToken = TRUE
    /\ view = "main" /\ content = "home"
    /\ runSubHidden = TRUE
    /\ logTimer = (build \in Mono)
    /\ taskTimer = (build \in Mono)
    /\ pend = [k \in Kinds |-> 0]
    /\ last = NoLast
    /\ results \in [Items -> MediaIds]
    /\ bulkItems = NoBulk
    /\ bulkBtnOff = FALSE
    /\ runs = [r \in RunIds |-> NoRun]
    /\ TasksIdle
    /\ SourcesIdle
    /\ PasswordIdle
    /\ TitleIdle
    /\ SelIdle
    /\ ReqIdle
    /\ TokenIdle
    /\ FilterIdle
    /\ EditIdle

NextBulk ==
    \/ \E sel \in SUBSET Items : HandleBulkImport(sel)
    \/ HandleConfirmBulkImport
    \/ CancelBulkImport
    \/ \E r \in RunIds, st \in Statuses : ImportResp(r, st)
    \/ \E r \in RunIds : DelayElapsed(r)
    \/ \E st \in Statuses : LogoutResp(st)

SpecBulk == InitBulk /\ [][NextBulk]_vars

\* --------------------------------------------- properties (SpecBulk)

Outstanding == {r \in RunIds : runs[r].pc = "fetch"}

\* C4: bulk import issues its requests one at a time: at most one bulk
\* import request is outstanding, and when one is issued no other loop is
\* awaiting an answer or its 200 ms delay.
C4_OneAtATime ==
    /\ Cardinality(Outstanding) <= 1
    /\ last.op = "importIssue" =>
           Cardinality({r \in RunIds : runs[r].pc \in {"fetch", "delay"}}) = 1

\* C5: in a bulk import run no request is repeated, and when the run is
\* over every selected item has caused exactly one import request, whether
\* requests of the run failed or not; positions outside the run have none.
C5_ExactlyOnce ==
    /\ bulkItems.sel \subseteq
           {bulkItems.items[k] : k \in 1..Len(bulkItems.items)}
    /\ \A r \in RunIds :
        LET run == runs[r]
            inRun == {run.items[k] : k \in 1..Len(run.items)}
        IN /\ \A x \in Items : run.sent[x] <= 1
           /\ \A x \in Items \ inRun : run.sent[x] = 0
           /\ run.pc = "done" => \A x \in inRun : run.sent[x] = 1

\* C5 witness: a run over at least two items is over and one of its
\* requests failed.
C5_Witness ==
    \E r \in RunIds : /\ runs[r].pc = "done"
                      /\ runs[r].failed
                      /\ Len(runs[r].items) >= 2

\* -------------------------------------------------------------- task list
\* An element of #task-list: a task item carries data-task-id (id), the
\* status it shows (data-status and .task-status are written together) and,
\* in app.js, data-removing; id 0 is a <li> without the class task-item
\* (the 'no tasks' or the error message).
MsgLi == [id |-> 0, status |-> "none", removing |-> FALSE]
NewLi(t) == [id |-> t.id, status |-> t.status, removing |-> FALSE]

TaskRecs == [id : TaskIds, status : TaskStatuses]
\* The answers of GET /api/ui/tasks: every task at most once, by ascending id.
Responses ==
    {r \in UNION {[1..n -> TaskRecs] : n \in 0..MaxTasks} :
        \A j, k \in 1..Len(r) : j < k => r[j].id < r[k].id}

IdsOf(seq) == {seq[k].id : k \in 1..Len(seq)}

\* app.js: tasks.filter(task => !clearedTaskIds.has(task.task_id)); the
\* other consoles render the answer as it is.
tasksToRender_NoFilter(tasks, cleared) == tasks
tasksToRender(tasks, cleared) ==
    IF build = "app" THEN SelectSeq(tasks, LAMBDA t : t.id \notin cleared)
    ELSE tasks

\* The loop that removes the elements whose task is absent from the answer.
removeAbsent_KeepAll(dom, incoming) == dom
removeAbsent(dom, incoming) == SelectSeq(dom, LAMBDA e : e.id \in incoming)

\* One pass of tasksToRender.forEach: an existing element is updated in
\* place, a new one is appended.
upsert(dom, t) ==
    IF t.id \in IdsOf(dom)
    THEN [k \in 1..Len(dom) |->
             IF dom[k].id = t.id THEN [dom[k] EXCEPT !.status = t.status]
             ELSE dom[k]]
    ELSE Append(dom, NewLi(t))

RECURSIVE upsertAll(_, _)
upsertAll(dom, tasks) ==
    IF tasks = <<>> THEN dom
    ELSE upsertAll(upsert(dom, Head(tasks)), Tail(tasks))

\* app.js: the ids whose removal this render schedules (status 已完成 and no
\* data-removing yet).
toSchedule(dom, tasks) ==
    IF build # "app" THEN {}
    ELSE {dom[k].id : k \in {j \in 1..Len(dom) :
                                /\ dom[j].id \in IdsOf(tasks)
                                /\ dom[j].status = "done"
                                /\ ~dom[j].removing}}

\* renderTasks(tasks): the list and clearedTaskIds after the call, the ids
\* whose removal timeout it started, and what it did.
renderTasks(dom, cleared, tasks) ==
    LET shown == tasksToRender(tasks, cleared)
    IN IF Len(shown) = 0
       THEN [dom |-> <<MsgLi>>, cleared |-> cleared, sched |-> {},
             info |-> [NoRender EXCEPT !.shown = shown]]
       ELSE
         LET d0 == IF 0 \in IdsOf(dom) THEN <<>> ELSE dom
             d1 == removeAbsent(d0, IdsOf(shown))
             d2 == upsertAll(d1, shown)
             sch == toSchedule(d2, shown)
             d3 == [k \in 1..Len(d2) |->
                      IF d2[k].id \in sch THEN [d2[k] EXCEPT !.removing = TRUE]
                      ELSE d2[k]]
         IN [dom |-> d3, cleared |-> cleared \cup sch, sched |-> sch,
             info |-> [shown |-> shown,
                       updated |-> \E k \in 1..Len(d1), j \in 1..Len(shown) :
                                      /\ d1[k].id = shown[j].id
                                      /\ d1[k].status # shown[j].status,
                       appended |-> IdsOf(shown) \ IdsOf(d1) # {},
                       removed |-> IdsOf(d0) \ IdsOf(shown) # {}]]

\* tasks.js, updateTaskActionButtons: the disabled flags of the delete and
\* the pause/resume button for the list `dom` with the element of task
\* `sel` selected (0: no element is selected).
isDeletable(status) == status \in {"done", "failed"}
isPausable(status) == status = "running"
isResumable(status) == status = "paused"
StatusShown(dom, sel) ==
    (CHOOSE e \in {dom[k] : k \in 1..Len(dom)} : e.id = sel).status
updateTaskActionButtons(dom, sel) ==
    IF sel = 0 \/ sel \notin IdsOf(dom)
    THEN [deleteOff |-> TRUE, pauseOff |-> TRUE]
    ELSE LET status == StatusShown(dom, sel)
         IN [deleteOff |-> ~isDeletable(status),
             pauseOff |-> ~(isPausable(status) \/ isResumable(status))]

\* The class selected leaves the list with the element that carries it.
selectedIn(dom, sel) == IF sel \in IdsOf(dom) THEN sel ELSE 0

\* tasks.js, the end of renderTasks: the buttons are re-evaluated only when
\* the list still holds a selected element.  The same variables after the
\* list was replaced by a message <li>.
SelAfterRender(dom, rendered) ==
    LET sel == selectedIn(dom, selectedTask)
        b == updateTaskActionButtons(dom, sel)
    IN /\ selectedTask' = sel
       /\ IF build = "mod" /\ rendered /\ sel # 0
          THEN deleteOff' = b.deleteOff /\ pauseOff' = b.pauseOff
          ELSE UNCHANGED <<deleteOff, pauseOff>>

\* loadAndRenderTasks is called (interval tick, view switch, sub-navigation,
\* filter debounce) and runs up to its await.
LoadTasks ==
    /\ loadTasksGuard(token, lsToken)
    /\ Commit(AuthNow, Add(pend, "tasks", 1))
    /\ Did("loadTasks", "tasks", "none", TRUE, AuthNow, FALSE)
    /\ UNCHANGED <<build, content, runSubHidden, taskTimer>>
    /\ UNCHANGED <<taskVars, nonTask>>

\* loadAndRenderTasks after a 2xx answer: renderTasks(tasks).
TasksAnswer(resp) ==
    /\ pend["tasks"] > 0
    /\ LET r == renderTasks(taskDom, clearedTaskIds, resp)
       IN /\ taskDom' = r.dom
          /\ clearedTaskIds' = r.cleared
          /\ fade' = [t \in TaskIds |-> IF t \in r.sched THEN "wait" ELSE fade[t]]
          /\ lastRender' = r.info
    /\ lastResp' = resp
    /\ SelAfterRender(taskDom', Len(resp) > 0)
    /\ Commit(AuthNow, Add(pend, "tasks", -1))
    /\ Did("render", "tasks", "ok", FALSE, AuthNow, FALSE)
    /\ UNCHANGED <<build, content, runSubHidden, taskTimer>>
    /\ UNCHANGED nonTaskSel

\* loadAndRenderTasks after a failed request: apiFetch throws; tasks.js
\* replaces the list by an error <li>, the monoliths write to the console.
TasksFail(st) ==
    /\ pend["tasks"] > 0
    /\ st # "ok"
    /\ taskDom' = IF build = "mod" THEN <<MsgLi>> ELSE taskDom
    /\ LET a == apiFetch(AuthNow, st)
       IN /\ Commit(a, Add(pend, "tasks", -1))
          /\ Did("resp", "tasks", st, FALSE, a, build = "mod")
    /\ SelAfterRender(taskDom', FALSE)
    /\ UNCHANGED <<build, content, runSubHidden, taskTimer>>
    /\ UNCHANGED <<clearedTaskIds, fade, lastResp, lastRender, nonTaskSel>>

\* app.js: the 2.5 s timeout of a completed task fired: opacity 0 and the
\* 0.5 s timeout is started.
FadeStart(t) ==
    /\ fade[t] = "wait"
    /\ fade' = [fade EXCEPT ![t] = "fading"]
    /\ Did("fadeStart", "tasks", "none", FALSE, AuthNow, FALSE)
    /\ UNCHANGED <<build, token, lsToken, view, content, runSubHidden,
                   logTimer, taskTimer, pend>>
    /\ UNCHANGED <<taskDom, clearedTaskIds, lastResp, lastRender, nonTask>>

\* app.js: the 0.5 s timeout fired: the element is removed, and an empty
\* list gets the 'no tasks' message.
FadeRemove(t) ==
    /\ fade[t] = "fading"
    /\ fade' = [fade EXCEPT ![t] = "none"]
    /\ LET d == SelectSeq(taskDom, LAMBDA e : e.id # t)
       IN taskDom' = IF d = <<>> THEN <<MsgLi>> ELSE d
    /\ Did("fadeRemove", "tasks", "none", FALSE, AuthNow, FALSE)
    /\ UNCHANGED <<build, token, lsToken, view, content, runSubHidden,
                   logTimer, taskTimer, pend>>
    /\ UNCHANGED <<clearedTaskIds, lastResp, lastRender, nonTask>>

\* The operator is logged in and looks at the (running) task list.
InitTasks ==
    /\ build \in Builds
    /\ token = TRUE /\ lsToken = TRUE
    /\ view = "main" /\ content = "tasks"
    /\ runSubHidden = (build \in Mono)
    /\ logTimer = (build \in Mono)
    /\ taskTimer = (build \in Mono)
    /\ pend = [k \in Kinds |-> 0]
    /\ last = NoLast
    /\ BulkIdle
    /\ TasksIdle
    /\ SourcesIdle
    /\ PasswordIdle
    /\ TitleIdle
    /\ SelIdle
    /\ ReqIdle
    /\ TokenIdle
    /\ FilterIdle
    /\ EditIdle

NextTasks ==
    \/ LoadTasks
    \/ \E resp \in Responses : TasksAnswer(resp)
    \/ \E st \in Statuses : TasksFail(st)
    \/ \E t \in TaskIds : FadeStart(t)
    \/ \E t \in TaskIds : FadeRemove(t)
    \/ \E st \in Statuses : LogoutResp(st)

SpecTasks == InitTasks /\ [][NextTasks]_vars

\* -------------------------------------------- properties (SpecTasks)

ElementsOf(t) == {k \in 1..Len(taskDom) : taskDom[k].id = t}

\* The list holds exactly one element per task of `tasks`, each showing the
\* status of its task, and nothing else.
ListShows(tasks) ==
    /\ \A k \in 1..Len(tasks) :
          /\ Cardinality(ElementsOf(tasks[k].id)) = 1
          /\ \A j \in ElementsOf(tasks[k].id) :
                taskDom[j].status = tasks[k].status
    /\ \A j \in 1..Len(taskDom) : taskDom[j].id \in IdsOf(tasks)

\* C8 as stated: after a non-empty task list answer has been rendered the
\* list holds exactly one element per task of the answer, with its status.
C8_ListMatchesResponse ==
    (last.op = "render" /\ Len(lastResp) > 0) => ListShows(lastResp)

\* C8 as amended: after a task list answer has been rendered the list holds
\* exactly one element per task that renderTasks kept (the whole answer,
\* but in app.js without the tasks in clearedTaskIds), with its status; if
\* none was kept it holds the 'no tasks' message alone.
C8_ListMatchesRendered ==
    last.op = "render" =>
        IF Len(lastRender.shown) > 0 THEN ListShows(lastRender.shown)
        ELSE taskDom = <<MsgLi>>

\* C8 witness: a render of a non-empty answer has updated an element in
\* place and removed one whose task was absent.
C8_Witness ==
    /\ last.op = "render" /\ Len(lastResp) > 0
    /\ lastRender.updated /\ lastRender.removed

\* C8 witness of appending: a render has appended an element to a list
\* that already held one.
C8_WitnessAppend ==
    /\ last.op = "render" /\ lastRender.appended /\ Len(taskDom) > 1

\* C18: the element of a task rendered as completed stays in the list while
\* its 2.5 s timeout is pending and during the 0.5 s fade-out that follows;
\* it leaves the list only when the second timeout fires.
C18_CompletedStaysUntilFaded ==
    \A t \in TaskIds : fade[t] # "none" => ElementsOf(t) # {}

\* The removal timeouts themselves keep the order: the element is still in
\* the list when no task list answer was rendered since it was scheduled.
FadeOrderKept ==
    \A t \in TaskIds :
        (fade[t] # "none" /\ last.op \in {"render", "fadeStart"}
            /\ t \in IdsOf(lastRender.shown)) => ElementsOf(t) # {}

\* C19: a task whose id is in clearedTaskIds stays there, and no later task
\* list answer is rendered with it: renderTasks drops it from the tasks it
\* renders and the list gets no element for it.
C19_ClearedNeverRendered ==
    [][\A t \in clearedTaskIds :
          /\ t \in clearedTaskIds'
          /\ last'.op = "render" => t \notin IdsOf(lastRender'.shown)
          /\ t \in IdsOf(taskDom') => t \in IdsOf(taskDom)]_vars

\* C19 witness: a task that was cleared and faded out is listed by the
\* answer rendered last, and the list has no element for it.
C19_Witness ==
    /\ last.op = "render"
    /\ \E t \in clearedTaskIds :
          /\ fade[t] = "none"
          /\ t \in IdsOf(lastResp)
          /\ t \notin IdsOf(taskDom)
          /\ Len(lastRender.shown) > 0

\* ------------------------------------- overlapping task list requests
\* tasks.js sends every call of loadAndRenderTasks as a request of its own
\* and renders each answer when it arrives; the answers of two requests in
\* flight arrive in either order.

Issued == {n \in ReqIds : taskReqs[n] # "none"}

\* loadAndRenderTasks up to its await, with #running-tasks-subview hidden
\* or not as `hidden` says: the requests after the call.
loadAndRenderTasks(reqs, hidden) ==
    IF lsToken /\ ~hidden
    THEN [reqs EXCEPT ![Cardinality(Issued) + 1] = "flight"]
    ELSE reqs

\* handleTaskManagerSubNav for the running-tasks button: the sub-view is
\* shown and loadAndRenderTasks is called.
TaskSubNavRunning ==
    /\ build = "mod"
    /\ view = "main" /\ content = "tasks"
    /\ Cardinality(Issued) < MaxTaskReqs
    /\ runSubHidden' = FALSE
    /\ taskReqs' = loadAndRenderTasks(taskReqs, FALSE)
    /\ Did("subnav", "tasks", "none", lsToken, AuthNow, FALSE)
    /\ UNCHANGED <<build, token, lsToken, view, content, logTimer, taskTimer,
                   pend>>
    /\ UNCHANGED <<taskLoadTimeout, shownReq, nonReq>>

\* applyTaskFilters (search input, filter button):
\* loadAndRenderTasksWithDebounce restarts the 300 ms timeout.
ApplyTaskFilters ==
    /\ build = "mod"
    /\ view = "main" /\ content = "tasks" /\ ~runSubHidden
    /\ taskLoadTimeout' = TRUE
    /\ Did("filter", "tasks", "none", FALSE, AuthNow, FALSE)
    /\ UNCHANGED <<build, token, lsToken, view, content, runSubHidden,
                   logTimer, taskTimer, pend>>
    /\ UNCHANGED <<taskReqs, shownReq, nonReq>>

\* The debounce timeout fires: loadAndRenderTasks.
TaskLoadTimeoutFires ==
    /\ taskLoadTimeout
    /\ Cardinality(Issued) < MaxTaskReqs
    /\ taskLoadTimeout' = FALSE
    /\ taskReqs' = loadAndRenderTasks(taskReqs, runSubHidden)
    /\ Did("loadTasks", "tasks", "none", loadTasksGuard(token, lsToken),
           AuthNow, FALSE)
    /\ UNCHANGED <<build, token, lsToken, view, content, runSubHidden,
                   logTimer, taskTimer, pend>>
    /\ UNCHANGED <<shownReq, nonReq>>

\* loadAndRenderTasks after the 2xx answer of request n: renderTasks(tasks).
TasksAnswerOf(n, resp) ==
    /\ taskReqs[n] = "flight"
    /\ LET r == renderTasks(taskDom, clearedTaskIds, resp)
       IN /\ taskDom' = r.dom
          /\ clearedTaskIds' = r.cleared
          /\ fade' = [t \in TaskIds |-> IF t \in r.sched THEN "wait" ELSE fade[t]]
          /\ lastRender' = r.info
    /\ lastResp' = resp
    /\ taskReqs' = [taskReqs EXCEPT ![n] = "answered"]
    /\ shownReq' = n
    /\ SelAfterRender(taskDom', Len(resp) > 0)
    /\ Commit(AuthNow, pend)
    /\ Did("render", "tasks", "ok", FALSE, AuthNow, FALSE)
    /\ UNCHANGED <<build, content, runSubHidden, taskTimer>>
    /\ UNCHANGED <<taskLoadTimeout, nonTaskReq>>

\* loadAndRenderTasks after request n failed: the list is replaced by the
\* error <li>.
TasksFailOf(n, st) ==
    /\ taskReqs[n] = "flight"
    /\ st # "ok"
    /\ taskDom' = <<MsgLi>>
    /\ taskReqs' = [taskReqs EXCEPT ![n] = "answered"]
    /\ shownReq' = n
    /\ LET a == apiFetch(AuthNow, st)
       IN /\ Commit(a, pend)
          /\ Did("resp", "tasks", st, FALSE, a, TRUE)
    /\ SelAfterRender(taskDom', FALSE)
    /\ UNCHANGED <<build, content, runSubHidden, taskTimer>>
    /\ UNCHANGED <<clearedTaskIds, fade, lastResp, lastRender>>
    /\ UNCHANGED <<taskLoadTimeout, nonTaskReq>>

\* The modular console, logged in, with the task manager selected and the
\* running-tasks sub-view not yet shown.
InitTaskReqs ==
    /\ build = "mod"
    /\ token = TRUE /\ lsToken = TRUE
    /\ view = "main" /\ content = "tasks"
    /\ runSubHidden = TRUE
    /\ logTimer = FALSE
    /\ taskTimer = FALSE
    /\ pend = [k \in Kinds |-> 0]
    /\ last = NoLast
    /\ BulkIdle
    /\ TasksIdle
    /\ SourcesIdle
    /\ PasswordIdle
    /\ TitleIdle
    /\ SelIdle
    /\ ReqIdle
    /\ TokenIdle
    /\ FilterIdle
    /\ EditIdle

NextTaskReqs ==
    \/ TaskSubNavRunning
    \/ TaskSubNavScheduled
    \/ ApplyTaskFilters
    \/ TaskLoadTimeoutFires
    \/ \E n \in ReqIds, resp \in Responses : TasksAnswerOf(n, resp)
    \/ \E n \in ReqIds, st \in Statuses : TasksFailOf(n, st)

SpecTaskReqs == InitTaskReqs /\ [][NextTaskReqs]_vars

\* C20: the list shows the answer of the newest request that was answered:
\* the answer of an older request never replaces what the answer of a newer
\* request has rendered.
C20_NewestAnswerShown ==
    \A n \in ReqIds : taskReqs[n] = "answered" => shownReq >= n

\* -------------------------------- task selection and action buttons
\* task.status as the running-tasks view of tasks.js tells them apart:
\* 运行中, 已暂停, 排队中, 已完成 (失败 is treated as 已完成 everywhere).
SelStatuses == {"running", "paused", "queued", "done"}
SelTaskIds == 1..MaxSelTasks
SelResponses ==
    {r \in UNION {[1..n -> [id : SelTaskIds, status : SelStatuses]] :
                     n \in 0..MaxSelTasks} :
        \A j, k \in 1..Len(r) : j < k => r[j].id < r[k].id}

\* handleTaskSelection: a click on the element of task t toggles its class
\* selected, takes the class from every other element and re-evaluates the
\* buttons.
HandleTaskSelection(t) ==
    /\ build = "mod"
    /\ view = "main" /\ content = "tasks" /\ ~runSubHidden
    /\ t \in IdsOf(taskDom) /\ t # 0
    /\ LET sel == IF selectedTask = t THEN 0 ELSE t
           b == updateTaskActionButtons(taskDom, sel)
       IN /\ selectedTask' = sel
          /\ deleteOff' = b.deleteOff
          /\ pauseOff' = b.pauseOff
    /\ Did("select", "tasks", "none", FALSE, AuthNow, FALSE)
    /\ UNCHANGED <<build, token, lsToken, view, content, runSubHidden,
                   logTimer, taskTimer, pend>>
    /\ UNCHANGED nonSel

\* The status test of handleDeleteRunningTask.
notDeletable_NoCheck(status) == FALSE
notDeletable(status) == status \in {"running", "queued", "paused"}

\* handleDeleteRunningTask up to its await: without a selected element, or
\* with one whose data-status is refused, it alerts and returns; otherwise
\* it asks for confirmation and sends DELETE /api/ui/tasks/{id}.  The
\* handler does not look at the disabled flag of its button.
HandleDeleteRunningTask(confirmed) ==
    /\ build = "mod"
    /\ view = "main" /\ content = "tasks" /\ ~runSubHidden
    /\ LET refused == \/ selectedTask = 0
                      \/ notDeletable(StatusShown(taskDom, selectedTask))
           send == ~refused /\ confirmed
       IN /\ Commit(AuthNow, IF send THEN Add(pend, "deleteTask", 1) ELSE pend)
          /\ Did("delete", "deleteTask", "none", send, AuthNow, refused)
    /\ UNCHANGED <<build, content, runSubHidden, taskTimer>>
    /\ UNCHANGED nonAuth

\* handleDeleteRunningTask after its request settled: loadAndRenderTasks()
\* after a 2xx answer, an alert otherwise.
DeleteTaskResp(st) ==
    /\ pend["deleteTask"] > 0
    /\ LET a == apiFetch(AuthNow, st)
           go == st = "ok" /\ loadTasksGuard(a.token, a.ls)
           p == Add(pend, "deleteTask", -1)
       IN /\ Commit(a, IF go THEN Add(p, "tasks", 1) ELSE p)
          /\ Did("resp", "deleteTask", st, go, a, st # "ok")
    /\ UNCHANGED <<build, content, runSubHidden, taskTimer>>
    /\ UNCHANGED nonAuth

\* The modular console, logged in, with the running-tasks sub-view shown.
InitSelect ==
    /\ build = "mod"
    /\ token = TRUE /\ lsToken = TRUE
    /\ view = "main" /\ content = "tasks"
    /\ runSubHidden = FALSE
    /\ logTimer = FALSE
    /\ taskTimer = FALSE
    /\ pend = [k \in Kinds |-> 0]
    /\ last = NoLast
    /\ BulkIdle
    /\ TasksIdle
    /\ SourcesIdle
    /\ PasswordIdle
    /\ TitleIdle
    /\ SelIdle
    /\ ReqIdle
    /\ TokenIdle
    /\ FilterIdle
    /\ EditIdle

NextSelect ==
    \/ LoadTasks
    \/ \E resp \in SelResponses : TasksAnswer(resp)
    \/ \E st \in Statuses : TasksFail(st)
    \/ \E t \in SelTaskIds : HandleTaskSelection(t)
    \/ \E confirmed \in BOOLEAN : HandleDeleteRunningTask(confirmed)
    \/ \E st \in Statuses : DeleteTaskResp(st)

SpecSelect == InitSelect /\ [][NextSelect]_vars

\* -------------------------------------------- properties (SpecSelect)

\* The buttons are as updateTaskActionButtons would set them now: without
\* a selected element both are disabled; with one, delete is enabled iff its
\* status can be deleted and pause/resume iff it can be paused or resumed.
ButtonsReflectSelection ==
    IF selectedTask = 0 THEN deleteOff /\ pauseOff
    ELSE /\ deleteOff = ~isDeletable(StatusShown(taskDom, selectedTask))
         /\ pauseOff = ~(StatusShown(taskDom, selectedTask)
                            \in {"running", "paused"})

\* C21: after every render of the task list and after every selection
\* change the delete and pause/resume buttons reflect the selected task,
\* and both are disabled when no task of the list is selected.
C21_ButtonsReflectSelection ==
    last.op \in {"render", "select"} => ButtonsReflectSelection

\* After a selection change, and after a render that leaves a selected
\* element in the list, the buttons do reflect the selected task.
ButtonsFollowSelected ==
    (last.op = "select" \/ (last.op = "render" /\ selectedTask # 0))
        => ButtonsReflectSelection

\* C22: a DELETE /api/ui/tasks/{id} request is sent only with a task
\* selected whose displayed status is none of 运行中, 排队中, 已暂停.
C22_DeleteOnlyFinished ==
    (last.op = "delete" /\ last.issued) =>
        /\ selectedTask # 0
        /\ selectedTask \in IdsOf(taskDom)
        /\ StatusShown(taskDom, selectedTask)
              \notin {"running", "queued", "paused"}

\* C22 witness: a request was sent for a finished task, and a click with a
\* paused task selected was refused.
C22_Witness ==
    /\ last.op = "delete" /\ last.issued
    /\ StatusShown(taskDom, selectedTask) = "done"

C22_WitnessRefused ==
    /\ last.op = "delete" /\ ~last.issued /\ last.msg
    /\ selectedTask # 0
    /\ StatusShown(taskDom, selectedTask) = "paused"

\* ------------------------------------------------------- danmaku sources
\* A <li> of the sources list: dataset.providerName (0: the attribute is
\* absent, as on the 'loading' and 'load failed' <li>), dataset.isEnabled
\* (a string; "none": absent) and the class selected.
Providers == 1..MaxProviders
PlainLi == [name |-> 0, enabled |-> "none", selected |-> FALSE]

\* The answers of GET /api/ui/scrapers: every provider at most once, in
\* display order, each enabled or not.
Settings ==
    {r \in UNION {[1..n -> [provider_name : Providers, is_enabled : BOOLEAN]] :
                     n \in 0..MaxProviders} :
        \A j, k \in 1..Len(r) : j # k => r[j].provider_name # r[k].provider_name}

\* li.dataset.isEnabled = <boolean>: the DOM stores the string.
toDataset(b) == IF b THEN "true" ELSE "false"

\* renderScraperSettings / renderDanmakuSources.
renderSources(settings) ==
    [k \in 1..Len(settings) |->
        [name |-> settings[k].provider_name,
         enabled |-> toDataset(settings[k].is_enabled),
         selected |-> FALSE]]

\* The settingsToSave of handleSaveSources: one entry per <li> of the list.
settingsToSave(dom) ==
    [k \in 1..Len(dom) |->
        [provider_name |-> dom[k].name,
         is_enabled |-> (dom[k].enabled = "true"),
         display_order |-> k]]

SelectedLi == {k \in 1..Len(srcDom) : srcDom[k].selected}

swap(dom, j, k) ==
    [x \in 1..Len(dom) |-> IF x = j THEN dom[k] ELSE IF x = k THEN dom[j]
                           ELSE dom[x]]

SourcesShown == view = "main" /\ content = "sources"

\* loadScraperSettings up to its await (the sources view is opened again).
LoadSources ==
    /\ SourcesShown
    /\ srcDom' = <<PlainLi>>
    /\ Commit(AuthNow, Add(pend, "scrapers", 1))
    /\ Did("loadSources", "scrapers", "none", TRUE, AuthNow, FALSE)
    /\ UNCHANGED <<build, content, runSubHidden, taskTimer>>
    /\ UNCHANGED <<srcLoaded, srcSaveOff, lastPayload, nonSrc>>

\* loadScraperSettings after its request settled.
SourcesResp(st, settings) ==
    /\ pend["scrapers"] > 0
    /\ srcDom' = IF st = "ok" THEN renderSources(settings) ELSE <<PlainLi>>
    /\ srcLoaded' = IF st = "ok" THEN settings ELSE srcLoaded
    /\ LET a == apiFetch(AuthNow, st)
       IN /\ Commit(a, Add(pend, "scrapers", -1))
          /\ Did("resp", "scrapers", st, FALSE, a, st # "ok")
    /\ UNCHANGED <<build, content, runSubHidden, taskTimer>>
    /\ UNCHANGED <<srcSaveOff, lastPayload, nonSrc>>

\* The click listener renderScraperSettings gives each provider <li>.
SelectSource(k) ==
    /\ SourcesShown
    /\ k \in 1..Len(srcDom)
    /\ srcDom[k].name # 0
    /\ srcDom' = [x \in 1..Len(srcDom) |->
                     [srcDom[x] EXCEPT !.selected = (x = k)]]
    /\ Did("selectSource", "none", "none", FALSE, AuthNow, FALSE)
    /\ UNCHANGED <<build, token, lsToken, view, content, runSubHidden,
                   logTimer, taskTimer, pend>>
    /\ UNCHANGED <<srcLoaded, srcSaveOff, lastPayload, nonSrc>>

\* handleToggleSource.
ToggleSource ==
    /\ SourcesShown
    /\ srcDom' = [x \in 1..Len(srcDom) |->
                     IF x \in SelectedLi
                     THEN [srcDom[x] EXCEPT
                              !.enabled = toDataset(~(srcDom[x].enabled = "true"))]
                     ELSE srcDom[x]]
    /\ Did("toggleSource", "none", "none", FALSE, AuthNow, FALSE)
    /\ UNCHANGED <<build, token, lsToken, view, content, runSubHidden,
                   logTimer, taskTimer, pend>>
    /\ UNCHANGED <<srcLoaded, srcSaveOff, lastPayload, nonSrc>>

\* handleMoveSourceUp / handleMoveSourceDown (handleMoveDanmakuSource).
MoveSource(dir) ==
    /\ SourcesShown
    /\ srcDom' =
          IF \E k \in SelectedLi : k + dir \in 1..Len(srcDom)
          THEN LET k == CHOOSE x \in SelectedLi : TRUE
               IN swap(srcDom, k, k + dir)
          ELSE srcDom
    /\ Did("moveSource", "none", "none", FALSE, AuthNow, FALSE)
    /\ UNCHANGED <<build, token, lsToken, view, content, runSubHidden,
                   logTimer, taskTimer, pend>>
    /\ UNCHANGED <<srcLoaded, srcSaveOff, lastPayload, nonSrc>>

\* handleSaveSources up to its await.
SaveSources ==
    /\ SourcesShown
    /\ ~srcSaveOff
    /\ lastPayload' = settingsToSave(srcDom)
    /\ srcSaveOff' = TRUE
    /\ Commit(AuthNow, Add(pend, "saveSrc", 1))
    /\ Did("saveSources", "saveSrc", "none", TRUE, AuthNow, FALSE)
    /\ UNCHANGED <<build, content, runSubHidden, taskTimer>>
    /\ UNCHANGED <<srcDom, srcLoaded, nonSrc>>

\* handleSaveSources after its request settled: alert, and after a 2xx
\* answer loadScraperSettings().
SaveSourcesResp(st) ==
    /\ pend["saveSrc"] > 0
    /\ srcSaveOff' = FALSE
    /\ srcDom' = IF st = "ok" THEN <<PlainLi>> ELSE srcDom
    /\ LET a == apiFetch(AuthNow, st)
           p == Add(pend, "saveSrc", -1)
       IN /\ Commit(a, IF st = "ok" THEN Add(p, "scrapers", 1) ELSE p)
          /\ Did("resp", "saveSrc", st, st = "ok", a, TRUE)
    /\ UNCHANGED <<build, content, runSubHidden, taskTimer>>
    /\ UNCHANGED <<srcLoaded, lastPayload, nonSrc>>

\* The operator is logged in and has just opened the sources view.
InitSources ==
    /\ build \in Builds
    /\ token = TRUE /\ lsToken = TRUE
    /\ view = "main" /\ content = "sources"
    /\ runSubHidden = TRUE
    /\ logTimer = (build \in Mono)
    /\ taskTimer = (build \in Mono)
    /\ pend = [k \in Kinds |-> IF k = "scrapers" THEN 1 ELSE 0]
    /\ last = NoLast
    /\ BulkIdle
    /\ TasksIdle
    /\ srcDom = <<PlainLi>>
    /\ srcLoaded = <<>>
    /\ srcSaveOff = FALSE
    /\ lastPayload = <<>>
    /\ PasswordIdle
    /\ TitleIdle
    /\ SelIdle
    /\ ReqIdle
    /\ TokenIdle
    /\ FilterIdle
    /\ EditIdle

NextSources ==
    \/ LoadSources
    \/ \E st \in Statuses, settings \in Settings : SourcesResp(st, settings)
    \/ \E k \in 1..MaxProviders : SelectSource(k)
    \/ ToggleSource
    \/ \E dir \in {-1, 1} : MoveSource(dir)
    \/ SaveSources
    \/ \E st \in Statuses : SaveSourcesResp(st)
    \/ \E st \in Statuses : LogoutResp(st)

SpecSources == InitSources /\ [][NextSources]_vars

\* ---------------------------------------------- properties (SpecSources)

NamesOf(seq) == {seq[k].provider_name : k \in 1..Len(seq)}

\* C9: the body of a save holds exactly the providers that were loaded,
\* each once, with display_order 1..n in the displayed order.
C9_PayloadIsLoadedProviders ==
    last.op = "saveSources" =>
        /\ Len(lastPayload) = Len(srcLoaded)
        /\ NamesOf(lastPayload) = NamesOf(srcLoaded)
        /\ \A k \in 1..Len(lastPayload) : lastPayload[k].display_order = k

\* The same for a save made while the list shows rendered providers.
SaveOfRenderedList ==
    (last.op = "saveSources" /\ \A k \in 1..Len(srcDom) : srcDom[k].name # 0)
        => /\ Len(lastPayload) = Len(srcLoaded)
           /\ NamesOf(lastPayload) = NamesOf(srcLoaded)
           /\ \A k \in 1..Len(lastPayload) :
                 /\ lastPayload[k].display_order = k
                 /\ lastPayload[k].provider_name = srcDom[k].name

\* ------------------------------------------------------ account settings
\* The strings typed into the password fields: a...a and a...ab of every
\* length up to MaxPwLen.
Passwords ==
    {[k \in 1..n |-> IF k = n THEN c ELSE "a"] :
        n \in 0..MaxPwLen, c \in {"a", "b"}}

\* handleChangePassword: newPassword.length < 8
tooShort_NoCheck(newPassword) == FALSE
tooShort(newPassword) == Len(newPassword) < MinPasswordLen

\* handleChangePassword: the validation before the request; "none" when the
\* request is sent.
passwordError(newPassword, confirmPassword) ==
    IF tooShort(newPassword) THEN "short"
    ELSE IF newPassword # confirmPassword THEN "mismatch"
    ELSE "none"

SettingsShown == view = "main" /\ content = "settings"

\* The operator fills in the password fields.
TypePasswords(newPassword, confirmPassword) ==
    /\ SettingsShown
    /\ pwForm' = [new |-> newPassword, confirm |-> confirmPassword]
    /\ Did("typePasswords", "none", "none", FALSE, AuthNow, FALSE)
    /\ UNCHANGED <<build, token, lsToken, view, content, runSubHidden,
                   logTimer, taskTimer, pend>>
    /\ UNCHANGED <<pwMsg, pwBtnOff, nonPw>>

\* handleChangePassword up to its await (settings.js disables the submit
\* button while the request is in flight).
HandleChangePassword ==
    /\ SettingsShown
    /\ ~pwBtnOff
    /\ LET err == passwordError(pwForm.new, pwForm.confirm)
           go == err = "none"
       IN /\ pwMsg' = IF go THEN "" ELSE "error"
          /\ pwBtnOff' = (go /\ build = "mod")
          /\ Commit(AuthNow, IF go THEN Add(pend, "password", 1) ELSE pend)
          /\ Did("changePassword", "password", "none", go, AuthNow, ~go)
    /\ UNCHANGED <<build, content, runSubHidden, taskTimer>>
    /\ UNCHANGED <<pwForm, nonPw>>

\* handleChangePassword after its request settled: success message and
\* form reset, or the error message.
PasswordResp(st) ==
    /\ pend["password"] > 0
    /\ pwMsg' = IF st = "ok" THEN "success" ELSE "error"
    /\ pwForm' = IF st = "ok" THEN [new |-> <<>>, confirm |-> <<>>] ELSE pwForm
    /\ pwBtnOff' = FALSE
    /\ LET a == apiFetch(AuthNow, st)
       IN /\ Commit(a, Add(pend, "password", -1))
          /\ Did("resp", "password", st, FALSE, a, TRUE)
    /\ UNCHANGED <<build, content, runSubHidden, taskTimer>>
    /\ UNCHANGED nonPw

\* The operator is logged in and has opened the settings view.
InitPassword ==
    /\ build \in Builds
    /\ token = TRUE /\ lsToken = TRUE
    /\ view = "main" /\ content = "settings"
    /\ runSubHidden = TRUE
    /\ logTimer = (build \in Mono)
    /\ taskTimer = (build \in Mono)
    /\ pend = [k \in Kinds |-> 0]
    /\ last = NoLast
    /\ BulkIdle
    /\ TasksIdle
    /\ SourcesIdle
    /\ PasswordIdle
    /\ TitleIdle
    /\ SelIdle
    /\ ReqIdle
    /\ TokenIdle
    /\ FilterIdle
    /\ EditIdle

NextPassword ==
    \/ \E n, c \in Passwords : TypePasswords(n, c)
    \/ HandleChangePassword
    \/ \E st \in Statuses : PasswordResp(st)
    \/ \E st \in Statuses : LogoutResp(st)

SpecPassword == InitPassword /\ [][NextPassword]_vars

\* --------------------------------------------- properties (SpecPassword)

\* C10: a submit of the password form sends the request only if the new
\* password has at least 8 characters and equals the confirmation;
\* otherwise it sends none and shows the inline error message.
C10_RequestOnlyIfValid ==
    last.op = "changePassword" =>
        IF Len(pwForm.new) >= 8 /\ pwForm.new = pwForm.confirm
        THEN last.issued
        ELSE ~last.issued /\ last.msg /\ pwMsg = "error"

\* C10 witness: a submit with a new password of at least 8 characters that
\* differs from the confirmation has been refused.
C10_Witness ==
    /\ last.op = "changePassword" /\ ~last.issued
    /\ Len(pwForm.new) >= 8 /\ pwForm.new # pwForm.confirm

\* C10 witnesses of the other cases: a password of 7 characters equal to
\* its confirmation refused, and one of 8 characters sent.
C10_WitnessShort ==
    /\ last.op = "changePassword" /\ ~last.issued
    /\ Len(pwForm.new) = 7 /\ pwForm.new = pwForm.confirm

C10_WitnessSent ==
    /\ last.op = "changePassword" /\ last.issued
    /\ Len(pwForm.new) = 8

\* -------------------------------------------------------- edit anime form
\* The characters typed into #edit-anime-season.
SeasonChars == {" ", "-", "0", "1", "2", "x"}

Digits == {"0", "1", "2"}
DigitVal(c) == IF c = "0" THEN 0 ELSE IF c = "1" THEN 1 ELSE 2

\* parseInt(text, 10): leading white space is skipped, an optional sign is
\* read, then the longest run of decimal digits; NaN when that run is
\* empty. What follows the digits is ignored.
NaN == [nan |-> TRUE, val |-> 0]
Num(n) == [nan |-> FALSE, val |-> n]
RECURSIVE skipSpace(_)
skipSpace(t) == IF t # <<>> /\ Head(t) = " " THEN skipSpace(Tail(t)) ELSE t

RECURSIVE readDigits(_, _, _)
readDigits(t, acc, any) ==
    IF t # <<>> /\ Head(t) \in Digits
    THEN readDigits(Tail(t), 10 * acc + DigitVal(Head(t)), TRUE)
    ELSE IF any THEN Num(acc) ELSE NaN

parseInt(text) ==
    LET t == skipSpace(text)
        neg == t # <<>> /\ Head(t) = "-"
        n == readDigits(IF neg THEN Tail(t) ELSE t, 0, FALSE)
    IN IF n.nan THEN NaN ELSE IF neg THEN Num(0 - n.val) ELSE n

\* handleEditAnimeSave: isNaN(newSeason) || newSeason < 1 (a comparison
\* with NaN is false).
seasonRejected_NoNaNCheck(n) == ~n.nan /\ n.val < 1
seasonRejected(n) == n.nan \/ n.val < 1

EditShown == view = "main" /\ content = "edit"

\* The operator edits the season field: one more character, or backspace.
TypeSeason(c) ==
    /\ EditShown
    /\ Len(seasonField) < MaxSeasonLen
    /\ seasonField' = Append(seasonField, c)
    /\ Did("typeSeason", "none", "none", FALSE, AuthNow, FALSE)
    /\ UNCHANGED <<build, token, lsToken, view, content, runSubHidden,
                   logTimer, taskTimer, pend>>
    /\ UNCHANGED <<editBtnOff, nonEdit>>

EraseSeason ==
    /\ EditShown
    /\ seasonField # <<>>
    /\ seasonField' = SubSeq(seasonField, 1, Len(seasonField) - 1)
    /\ Did("typeSeason", "none", "none", FALSE, AuthNow, FALSE)
    /\ UNCHANGED <<build, token, lsToken, view, content, runSubHidden,
                   logTimer, taskTimer, pend>>
    /\ UNCHANGED <<editBtnOff, nonEdit>>

\* handleEditAnimeSave up to its await.
HandleEditAnimeSave ==
    /\ EditShown
    /\ ~editBtnOff
    /\ LET newSeason == parseInt(seasonField)
           go == ~seasonRejected(newSeason)
       IN /\ editBtnOff' = go
          /\ Commit(AuthNow, IF go THEN Add(pend, "editAnime", 1) ELSE pend)
          /\ Did("editSave", "editAnime", "none", go, AuthNow, ~go)
    /\ UNCHANGED <<build, content, runSubHidden, taskTimer>>
    /\ UNCHANGED <<seasonField, nonEdit>>

\* handleEditAnimeSave after its request settled: alert, after a 2xx answer
\* back to the library; the button is enabled again.
EditAnimeResp(st) ==
    /\ pend["editAnime"] > 0
    /\ editBtnOff' = FALSE
    /\ LET a == apiFetch(AuthNow, st)
       IN /\ Commit(a, Add(pend, "editAnime", -1))
          /\ Did("resp", "editAnime", st, FALSE, a, TRUE)
    /\ UNCHANGED <<build, content, runSubHidden, taskTimer>>
    /\ UNCHANGED <<seasonField, nonEdit>>

\* The operator is logged in and has opened the edit form of a title.
InitEdit ==
    /\ build \in Mono
    /\ token = TRUE /\ lsToken = TRUE
    /\ view = "main" /\ content = "edit"
    /\ runSubHidden = TRUE
    /\ logTimer = TRUE
    /\ taskTimer = TRUE
    /\ pend = [k \in Kinds |-> 0]
    /\ last = NoLast
    /\ BulkIdle
    /\ TasksIdle
    /\ SourcesIdle
    /\ PasswordIdle
    /\ TitleIdle
    /\ SelIdle
    /\ ReqIdle
    /\ TokenIdle
    /\ FilterIdle
    /\ EditIdle

NextEdit ==
    \/ \E c \in SeasonChars : TypeSeason(c)
    \/ EraseSeason
    \/ HandleEditAnimeSave
    \/ \E st \in Statuses : EditAnimeResp(st)
    \/ \E st \in Statuses : LogoutResp(st)

SpecEdit == InitEdit /\ [][NextEdit]_vars

\* ------------------------------------------------- properties (SpecEdit)

\* C11: a submit of the edit form sends the request only when the season
\* field parses to an integer greater than 0; otherwise it sends none and
\* alerts.
C11_SeasonChecked ==
    last.op = "editSave" =>
        LET n == parseInt(seasonField)
        IN IF ~n.nan /\ n.val > 0 THEN last.issued
           ELSE ~last.issued /\ last.msg

\* C11 witness: a submit with a season text that holds no number has been
\* refused with an alert.
C11_Witness ==
    /\ last.op = "editSave" /\ ~last.issued /\ last.msg
    /\ seasonField # <<>> /\ parseInt(seasonField).nan

\* C11 witnesses of the other cases: "0" refused, "1" sent.
C11_WitnessZero ==
    last.op = "editSave" /\ ~last.issued /\ seasonField = <<"0">>

C11_WitnessSent ==
    last.op = "editSave" /\ last.issued /\ seasonField = <<"1">>

\* ----------------------------------------------------- search result filter
\* The items of a search response: a media type and a title. Besides the two
\* types the filter buttons name, the library views know 'ova' and 'other'.
MediaTypes == {"movie", "tv_series", "ova"}
Titles == {<<"A", "b">>, <<"b">>}
FilterTexts == {<<>>, <<"A">>, <<"b">>, <<"b", "a">>}
SearchItems == [type : MediaTypes, title : Titles]
SearchResponses == UNION {[1..n -> SearchItems] : n \in 0..MaxResults}

\* String.prototype.toLowerCase and String.prototype.includes.
toLowerCase(t) == [k \in 1..Len(t) |-> IF t[k] = "A" THEN "a" ELSE t[k]]
includes(t, sub) ==
    \E k \in 0..(Len(t) - Len(sub)) : SubSeq(t, k + 1, k + Len(sub)) = sub

\* applyFiltersAndRender: what it hands to renderSearchResults.
activeTypes(m, tv) ==
    (IF m THEN {"movie"} ELSE {}) \cup (IF tv THEN {"tv_series"} ELSE {})

textFilter(res, text) ==
    IF toLowerCase(text) # <<>>
    THEN SelectSeq(res, LAMBDA item :
                     includes(toLowerCase(item.title), toLowerCase(text)))
    ELSE res

applyFilters(res, m, tv, text) ==
    textFilter(SelectSeq(res, LAMBDA item : item.type \in activeTypes(m, tv)),
               text)

HomeShown == view = "main" /\ content = "home"

\* handleSearch up to its await: the list is emptied.
HandleSearch ==
    /\ HomeShown
    /\ shownResults' = <<>>
    /\ Commit(AuthNow, Add(pend, "search", 1))
    /\ Did("search", "search", "none", TRUE, AuthNow, FALSE)
    /\ UNCHANGED <<build, content, runSubHidden, taskTimer>>
    /\ UNCHANGED <<origResults, movieOn, tvOn, filterText, lastSearch,
                   nonFilter>>

\* handleSearch after a 2xx answer: displayResults(results).
SearchAnswer(resp) ==
    /\ pend["search"] > 0
    /\ origResults' = resp
    /\ lastSearch' = resp
    /\ IF Len(resp) > 0
       THEN /\ movieOn' = TRUE /\ tvOn' = TRUE
            /\ filterText' = <<>>
            /\ shownResults' = applyFilters(resp, TRUE, TRUE, <<>>)
       ELSE /\ shownResults' = <<>>
            /\ UNCHANGED <<movieOn, tvOn, filterText>>
    /\ Commit(AuthNow, Add(pend, "search", -1))
    /\ Did("display", "search", "ok", FALSE, AuthNow, FALSE)
    /\ UNCHANGED <<build, content, runSubHidden, taskTimer>>
    /\ UNCHANGED nonFilter

\* handleSearch after a failed request: alert.
SearchFail(st) ==
    /\ pend["search"] > 0
    /\ st # "ok"
    /\ LET a == apiFetch(AuthNow, st)
       IN /\ Commit(a, Add(pend, "search", -1))
          /\ Did("resp", "search", st, FALSE, a, TRUE)
    /\ UNCHANGED <<build, content, runSubHidden, taskTimer>>
    /\ UNCHANGED <<filterVars, nonFilter>>

\* handleTypeFilterClick on one of the two buttons.
HandleTypeFilterClick(btn) ==
    /\ HomeShown
    /\ movieOn' = IF btn = "movie" THEN ~movieOn ELSE movieOn
    /\ tvOn' = IF btn = "tv_series" THEN ~tvOn ELSE tvOn
    /\ shownResults' = applyFilters(origResults, movieOn', tvOn', filterText)
    /\ Did("typeFilter", "none", "none", FALSE, AuthNow, FALSE)
    /\ UNCHANGED <<build, token, lsToken, view, content, runSubHidden,
                   logTimer, taskTimer, pend>>
    /\ UNCHANGED <<origResults, filterText, lastSearch, nonFilter>>

\* The input listener of #results-filter-input: applyFiltersAndRender.
FilterInput(text) ==
    /\ HomeShown
    /\ filterText' = text
    /\ shownResults' = applyFilters(origResults, movieOn, tvOn, text)
    /\ Did("textFilter", "none", "none", FALSE, AuthNow, FALSE)
    /\ UNCHANGED <<build, token, lsToken, view, content, runSubHidden,
                   logTimer, taskTimer, pend>>
    /\ UNCHANGED <<origResults, movieOn, tvOn, lastSearch, nonFilter>>

\* The operator is logged in and looks at the home view.
InitFilter ==
    /\ build \in {"p002", "mod"}
    /\ token = TRUE /\ lsToken = TRUE
    /\ view = "main" /\ content = "home"
    /\ runSubHidden = TRUE
    /\ logTimer = (build \in Mono)
    /\ taskTimer = (build \in Mono)
    /\ pend = [k \in Kinds |-> 0]
    /\ last = NoLast
    /\ BulkIdle
    /\ TasksIdle
    /\ SourcesIdle
    /\ PasswordIdle
    /\ TitleIdle
    /\ SelIdle
    /\ ReqIdle
    /\ TokenIdle
    /\ EditIdle
    /\ FilterIdle

NextFilter ==
    \/ HandleSearch
    \/ \E resp \in SearchResponses : SearchAnswer(resp)
    \/ \E st \in Statuses : SearchFail(st)
    \/ \E btn \in {"movie", "tv_series"} : HandleTypeFilterClick(btn)
    \/ \E text \in FilterTexts : FilterInput(text)
    \/ \E st \in Statuses : LogoutResp(st)

SpecFilter == InitFilter /\ [][NextFilter]_vars

\* ----------------------------------------------- properties (SpecFilter)

FilterOp == last.op \in {"typeFilter", "textFilter"}

\* An item matches when its type's button is active and its title holds
\* the filter text, letter case aside.
Matches(item) ==
    /\ \/ item.type = "movie" /\ movieOn
       \/ item.type = "tv_series" /\ tvOn
    /\ includes(toLowerCase(item.title), toLowerCase(filterText))

\* The filters leave originalSearchResults alone, and after a filter step
\* the list shows exactly the matching items of the last response.
FilterShowsMatching ==
    /\ origResults = lastSearch
    /\ FilterOp => shownResults = SelectSeq(lastSearch, Matches)

\* C12: the filters never modify originalSearchResults, the rendered
\* results are the matching items of the last response, and with both
\* types active and an empty filter text the whole response is shown.
C12_FilterKeepsResponse ==
    /\ origResults = lastSearch
    /\ FilterOp => shownResults = SelectSeq(lastSearch, Matches)
    /\ (FilterOp /\ movieOn /\ tvOn /\ filterText = <<>>)
           => shownResults = lastSearch

\* ------------------------------------------------------------ token view
\* The characters typed into #custom-domain-input: "h" stands for a piece
\* of an address such as http://host:7768.
DomainChars == {"h", "/", " "}
TokenValue == <<"T">>
ApiPath == <<"/", "a", "p", "i", "/">>

\* String.prototype.trim.
RECURSIVE trimEnd(_)
trimEnd(t) ==
    IF t # <<>> /\ t[Len(t)] = " " THEN trimEnd(SubSeq(t, 1, Len(t) - 1))
    ELSE t
trim(t) == trimEnd(skipSpace(t))

\* handleSaveDomain: domain.endsWith('/') ? domain.slice(0, -1) : domain
cleanedDomain(t) ==
    LET domain == trim(t)
    IN IF domain # <<>> /\ domain[Len(domain)] = "/"
       THEN SubSeq(domain, 1, Len(domain) - 1)
       ELSE domain

\* handleTokenAction('copy'): domain ? `${domain}/api/${tokenValue}` : tokenValue
textToCopy(field, tokenValue) ==
    LET domain == trim(field)
    IN IF domain # <<>> THEN domain \o ApiPath \o tokenValue ELSE tokenValue

TokensShown == view = "main" /\ content = "tokens"

\* loadCustomDomain up to its await (the token view is opened).
LoadCustomDomain ==
    /\ TokensShown
    /\ Commit(AuthNow, Add(pend, "domain", 1))
    /\ Did("loadDomain", "domain", "none", TRUE, AuthNow, FALSE)
    /\ UNCHANGED <<build, content, runSubHidden, taskTimer>>
    /\ UNCHANGED <<tokenVars, nonToken>>

\* loadCustomDomain after its request settled.
DomainResp(st) ==
    /\ pend["domain"] > 0
    /\ domainInput' = IF st = "ok" THEN serverDomain ELSE domainInput
    /\ LET a == apiFetch(AuthNow, st)
       IN /\ Commit(a, Add(pend, "domain", -1))
          /\ Did("resp", "domain", st, FALSE, a, st # "ok")
    /\ UNCHANGED <<build, content, runSubHidden, taskTimer>>
    /\ UNCHANGED <<serverDomain, domainSaving, saveDomainOff, clipboard,
                   nonToken>>

\* The operator edits the domain field: one more character, or backspace.
TypeDomain(c) ==
    /\ TokensShown
    /\ Len(domainInput) < MaxDomainLen
    /\ domainInput' = Append(domainInput, c)
    /\ Did("typeDomain", "none", "none", FALSE, AuthNow, FALSE)
    /\ UNCHANGED <<build, token, lsToken, view, content, runSubHidden,
                   logTimer, taskTimer, pend>>
    /\ UNCHANGED <<serverDomain, domainSaving, saveDomainOff, clipboard,
                   nonToken>>

EraseDomain ==
    /\ TokensShown
    /\ domainInput # <<>>
    /\ domainInput' = SubSeq(domainInput, 1, Len(domainInput) - 1)
    /\ Did("typeDomain", "none", "none", FALSE, AuthNow, FALSE)
    /\ UNCHANGED <<build, token, lsToken, view, content, runSubHidden,
                   logTimer, taskTimer, pend>>
    /\ UNCHANGED <<serverDomain, domainSaving, saveDomainOff, clipboard,
                   nonToken>>

\* handleSaveDomain up to its await.
HandleSaveDomain ==
    /\ TokensShown
    /\ ~saveDomainOff
    /\ saveDomainOff' = TRUE
    /\ domainSaving' = cleanedDomain(domainInput)
    /\ Commit(AuthNow, Add(pend, "saveDomain", 1))
    /\ Did("saveDomain", "saveDomain", "none", TRUE, AuthNow, FALSE)
    /\ UNCHANGED <<build, content, runSubHidden, taskTimer>>
    /\ UNCHANGED <<domainInput, serverDomain, clipboard, nonToken>>

\* handleSaveDomain after its request settled: after a 2xx answer the
\* backend holds the value and the field shows it.
SaveDomainResp(st) ==
    /\ pend["saveDomain"] > 0
    /\ saveDomainOff' = FALSE
    /\ serverDomain' = IF st = "ok" THEN domainSaving ELSE serverDomain
    /\ domainInput' = IF st = "ok" THEN domainSaving ELSE domainInput
    /\ domainSaving' = <<>>
    /\ LET a == apiFetch(AuthNow, st)
       IN /\ Commit(a, Add(pend, "saveDomain", -1))
          /\ Did("resp", "saveDomain", st, FALSE, a, TRUE)
    /\ UNCHANGED <<build, content, runSubHidden, taskTimer>>
    /\ UNCHANGED <<clipboard, nonToken>>

\* handleTokenAction('copy') with the answer of the clipboard: written, or
\* refused (the failure is alerted).
CopyToken(written) ==
    /\ TokensShown
    /\ clipboard' = IF written THEN textToCopy(domainInput, TokenValue)
                    ELSE clipboard
    /\ Did("copy", "none", IF written THEN "ok" ELSE "500", FALSE, AuthNow,
           TRUE)
    /\ UNCHANGED <<build, token, lsToken, view, content, runSubHidden,
                   logTimer, taskTimer, pend>>
    /\ UNCHANGED <<domainInput, serverDomain, domainSaving, saveDomainOff,
                   nonToken>>

\* The operator is logged in and has just opened the token view; the
\* backend may hold a domain configured earlier.
InitTokens ==
    /\ build \in Builds
    /\ token = TRUE /\ lsToken = TRUE
    /\ view = "main" /\ content = "tokens"
    /\ runSubHidden = TRUE
    /\ logTimer = (build \in Mono)
    /\ taskTimer = (build \in Mono)
    /\ pend = [k \in Kinds |-> IF k = "domain" THEN 1 ELSE 0]
    /\ last = NoLast
    /\ BulkIdle
    /\ TasksIdle
    /\ SourcesIdle
    /\ PasswordIdle
    /\ TitleIdle
    /\ SelIdle
    /\ ReqIdle
    /\ EditIdle
    /\ FilterIdle
    /\ domainInput = <<>>
    /\ serverDomain \in {<<>>, <<"h">>}
    /\ domainSaving = <<>>
    /\ saveDomainOff = FALSE
    /\ clipboard = <<>>

NextTokens ==
    \/ LoadCustomDomain
    \/ \E st \in Statuses : DomainResp(st)
    \/ \E c \in DomainChars : TypeDomain(c)
    \/ EraseDomain
    \/ HandleSaveDomain
    \/ \E st \in Statuses : SaveDomainResp(st)
    \/ \E written \in BOOLEAN : CopyToken(written)
    \/ \E st \in Statuses : LogoutResp(st)

SpecTokens == InitTokens /\ [][NextTokens]_vars

\* ----------------------------------------------- properties (SpecTokens)

\* C13: with a custom domain configured, a click on copy puts
\* <configured domain>/api/<token> on the clipboard.
C13_CopyYieldsLink ==
    (last.op = "copy" /\ serverDomain # <<>>)
        => clipboard = serverDomain \o ApiPath \o TokenValue

\* ------------------------------------------- season parsed from a title
\* A title is a sequence of characters, each written as a string: "di" is
\* 第, "yi" 一, "shi" 十, "ji" 季, "pian" 篇 and "R3" the one-character
\* Roman numeral Ⅲ; the other characters stand for themselves.
TitleChars == {"S", "0", "1", " ", "a", "I", "V", "di", "yi", "shi", "ji",
               "pian", "R3"}
TitlesUpTo(n) == UNION {[1..k -> TitleChars] : k \in 0..n}

\* The character classes of the patterns: \s, \w, [一二三四五六七八九十],
\* [Ⅰ-Ⅻ] and [IVXLCDM] with the flag i.
Spaces == {" "}
WordChars == Digits \cup {"S", "s", "a", "I", "V", "i", "v", "_"}
ChineseNums == {"yi", "er", "san", "si", "wu", "liu", "qi", "ba", "jiu",
                "shi"}
UnicodeRomans == {"R1", "R2", "R3", "R4", "R5", "R6", "R7", "R8", "R9",
                  "R10", "R11", "R12"}
RomanLetters == {"I", "V", "X", "L", "C", "D", "M",
                 "i", "v", "x", "l", "c", "d", "m"}

\* The index after the longest run of characters of `cls` that starts at i
\* (a greedy quantifier; the classes that follow one another in the
\* patterns are disjoint, so giving characters back never helps).
RECURSIVE runEnd(_, _, _)
runEnd(t, i, cls) ==
    IF i <= Len(t) /\ t[i] \in cls THEN runEnd(t, i + 1, cls) ELSE i

NoMatch == [ok |-> FALSE, cap |-> <<>>]
Capture(t, j, k) == [ok |-> k > j, cap |-> SubSeq(t, j, k - 1)]
CharAt(t, i) == IF i >= 1 /\ i <= Len(t) THEN t[i] ELSE "end"

\* String.prototype.toUpperCase / toLowerCase on one character.
upperChar(c) ==
    CASE c = "s" -> "S" [] c = "i" -> "I" [] c = "v" -> "V" [] c = "x" -> "X"
      [] c = "l" -> "L" [] c = "c" -> "C" [] c = "d" -> "D" [] c = "m" -> "M"
      [] OTHER -> c
lowerChar(c) == IF c = "S" THEN "s" ELSE c

\* /(?:S|Season)\s*(\d+)/i tried at index i.
SeasonWord == <<"s", "e", "a", "s", "o", "n">>
digitsAfter(t, p) ==
    LET j == runEnd(t, p, Spaces) IN Capture(t, j, runEnd(t, j, Digits))
pattern1(t, i) ==
    IF lowerChar(t[i]) # "s" THEN NoMatch
    ELSE IF digitsAfter(t, i + 1).ok THEN digitsAfter(t, i + 1)
    ELSE IF /\ i + 5 <= Len(t)
            /\ [k \in 1..6 |-> lowerChar(t[i + k - 1])] = SeasonWord
         THEN digitsAfter(t, i + 6)
         ELSE NoMatch

\* /第\s*([一二三四五六七八九十\d]+)\s*[季部]/ and
\* /第\s*([一二三四五六七八九十\d]+)\s*(?:部分|篇|章|幕)/ tried at index i;
\* closes2 and closes3 tell whether the closing word stands at index m.
closes2(t, m) == CharAt(t, m) \in {"ji", "bu"}
closes3(t, m) ==
    \/ CharAt(t, m) \in {"pian", "zhang", "mu"}
    \/ CharAt(t, m) = "bu" /\ CharAt(t, m + 1) = "fen"
ordinal(t, i, n) ==
    IF t[i] # "di" THEN NoMatch
    ELSE LET j == runEnd(t, i + 1, Spaces)
             k == runEnd(t, j, ChineseNums \cup Digits)
             m == runEnd(t, k, Spaces)
         IN IF k > j /\ (IF n = 2 THEN closes2(t, m) ELSE closes3(t, m))
            THEN Capture(t, j, k) ELSE NoMatch
pattern2(t, i) == ordinal(t, i, 2)
pattern3(t, i) == ordinal(t, i, 3)

\* /\s+([Ⅰ-Ⅻ])\b/i tried at index i: the numeral is no word character, so
\* \b holds only before a word character.
pattern4(t, i) ==
    IF t[i] \notin Spaces THEN NoMatch
    ELSE LET j == runEnd(t, i, Spaces)
         IN IF CharAt(t, j) \in UnicodeRomans /\ CharAt(t, j + 1) \in WordChars
            THEN Capture(t, j, j + 1) ELSE NoMatch

\* /\s+([IVXLCDM]+)$/i tried at index i.
pattern5(t, i) ==
    IF t[i] \notin Spaces THEN NoMatch
    ELSE LET j == runEnd(t, i, Spaces)
             k == runEnd(t, j, RomanLetters)
         IN IF k > j /\ k = Len(t) + 1 THEN Capture(t, j, k) ELSE NoMatch

\* The patterns in the order of the array, and title.match(patterns[n]):
\* the match at the leftmost index that has one.
patterns(n, t, i) ==
    CASE n = 1 -> pattern1(t, i) [] n = 2 -> pattern2(t, i)
      [] n = 3 -> pattern3(t, i) [] n = 4 -> pattern4(t, i)
      [] OTHER -> pattern5(t, i)
match(t, n) ==
    LET at == {i \in 1..Len(t) : patterns(n, t, i).ok}
    IN IF at = {} THEN NoMatch
       ELSE patterns(n, t, CHOOSE i \in at : \A j \in at : i <= j)

\* chineseNumMap and unicodeRomanMap: the value, 0 when the key is absent.
chineseNumMap(c) ==
    CASE c = <<"yi">> -> 1 [] c = <<"er">> -> 2 [] c = <<"san">> -> 3
      [] c = <<"si">> -> 4 [] c = <<"wu">> -> 5 [] c = <<"liu">> -> 6
      [] c = <<"qi">> -> 7 [] c = <<"ba">> -> 8 [] c = <<"jiu">> -> 9
      [] c = <<"shi">> -> 10 [] OTHER -> 0
unicodeRomanMap(c) ==
    CASE c = <<"R1">> -> 1 [] c = <<"R2">> -> 2 [] c = <<"R3">> -> 3
      [] c = <<"R4">> -> 4 [] c = <<"R5">> -> 5 [] c = <<"R6">> -> 6
      [] c = <<"R7">> -> 7 [] c = <<"R8">> -> 8 [] c = <<"R9">> -> 9
      [] c = <<"R10">> -> 10 [] c = <<"R11">> -> 11 [] c = <<"R12">> -> 12
      [] OTHER -> 0

\* romanToInt: map[s[i]] of a character that is no Roman letter is
\* undefined, and adding undefined makes the result NaN; nothing is thrown.
romanMap(c) ==
    CASE c = "I" -> 1 [] c = "V" -> 5 [] c = "X" -> 10 [] c = "L" -> 50
      [] c = "C" -> 100 [] c = "D" -> 500 [] c = "M" -> 1000 [] OTHER -> 0
RECURSIVE romanSum(_, _)
romanSum(s, i) ==
    IF i > Len(s) THEN 0
    ELSE LET current == romanMap(s[i])
             next == IF i < Len(s) THEN romanMap(s[i + 1]) ELSE 0
         IN (IF next # 0 /\ current < next THEN 0 - current ELSE current)
                + romanSum(s, i + 1)
romanToInt(s) ==
    IF \E i \in 1..Len(s) : romanMap(s[i]) = 0 THEN NaN
    ELSE Num(romanSum(s, 1))

\* The body of the loop for a pattern that matched with numStr.
seasonOf(numStr) ==
    IF \A i \in 1..Len(numStr) : numStr[i] \in Digits THEN parseInt(numStr)
    ELSE IF chineseNumMap(numStr) # 0 THEN Num(chineseNumMap(numStr))
    ELSE IF unicodeRomanMap([i \in 1..Len(numStr) |-> upperChar(numStr[i])]) # 0
         THEN Num(unicodeRomanMap([i \in 1..Len(numStr) |-> upperChar(numStr[i])]))
    ELSE romanToInt([i \in 1..Len(numStr) |-> upperChar(numStr[i])])

\* parseTitleForSeason: the first pattern that matches decides.
parseTitleForSeason(title) ==
    IF title = <<>> THEN Num(1)
    ELSE IF match(title, 1).ok THEN seasonOf(match(title, 1).cap)
    ELSE IF match(title, 2).ok THEN seasonOf(match(title, 2).cap)
    ELSE IF match(title, 3).ok THEN seasonOf(match(title, 3).cap)
    ELSE IF match(title, 4).ok THEN seasonOf(match(title, 4).cap)
    ELSE IF match(title, 5).ok THEN seasonOf(match(title, 5).cap)
    ELSE Num(1)

\* handleSearch maps every item of the answer: season is
\* parseTitleForSeason(item.title).
ParseTitle ==
    /\ ~seasonParsed
    /\ season' = parseTitleForSeason(searchTitle)
    /\ seasonParsed' = TRUE
    /\ Did("parseTitle", "search", "ok", FALSE, AuthNow, FALSE)
    /\ UNCHANGED <<build, token, lsToken, view, content, runSubHidden,
                   logTimer, taskTimer, pend>>
    /\ UNCHANGED <<searchTitle, nonTitle>>

\* A search answer has arrived with an item of some title.
InitTitle ==
    /\ build = "mod"
    /\ token = TRUE /\ lsToken = TRUE
    /\ view = "main" /\ content = "home"
    /\ runSubHidden = TRUE
    /\ logTimer = FALSE
    /\ taskTimer = FALSE
    /\ pend = [k \in Kinds |-> 0]
    /\ last = NoLast
    /\ BulkIdle
    /\ TasksIdle
    /\ SourcesIdle
    /\ PasswordIdle
    /\ SelIdle
    /\ ReqIdle
    /\ TokenIdle
    /\ FilterIdle
    /\ EditIdle
    /\ searchTitle \in TitlesUpTo(MaxTitleLen)
    /\ season = Num(1)
    /\ seasonParsed = FALSE

NextTitle == ParseTitle

SpecTitle == InitTitle /\ [][NextTitle]_vars

\* C23: for every title parseTitleForSeason returns an integer that is at
\* least 1, never NaN and never 0.
C23_SeasonAtLeastOne ==
    seasonParsed => (~season.nan /\ season.val >= 1)

\* A title with no digit and at most one Chinese numeral gets a season of
\* at least 1.
SeasonOfPlainTitle ==
    (/\ seasonParsed
     /\ \A i \in 1..Len(searchTitle) : searchTitle[i] \notin Digits
     /\ Cardinality({i \in 1..Len(searchTitle) :
                        searchTitle[i] \in ChineseNums}) <= 1)
        => (~season.nan /\ season.val >= 1)


\* A copy the clipboard accepted, made while the field shows the configured
\* domain (blanks around it aside), yields the link.
CopyOfShownDomain ==
    (last.op = "copy" /\ last.status = "ok" /\ serverDomain # <<>>
       /\ trim(domainInput) = serverDomain)
        => clipboard = serverDomain \o ApiPath \o TokenValue

TypeOK ==
    /\ build \in Builds \cup {Legacy}
    /\ token \in BOOLEAN /\ lsToken \in BOOLEAN
    /\ view \in {"none", "auth", "main"}
    /\ content \in ContentViews \cup {"bulk", "sources", "settings", "edit", "tokens"}
    /\ logTimer \in BOOLEAN /\ taskTimer \in BOOLEAN
    /\ \A k \in Kinds : pend[k] \in 0..(MaxPend + MaxLogout)
====
